---------------------------- MODULE Spec2Model ----------------------------
(***************************************************************************)
(* A state-machine model of the kromosynth evolution manager:              *)
(*   PortManager              (src/unnamed/part_003)                       *)
(*   ServiceDependencyManager (src/unnamed/part_009)                       *)
(*   EvolutionManager         (src/pm2/ecosystem.config.js, from line 72)  *)
(*   AutoRunScheduler         (src/evolution-manager/src/core/             *)
(*                             auto-run-scheduler.js)                      *)
(* together with the PM2 process table and event bus they act on.          *)
(*                                                                         *)
(* JavaScript Maps are functions with a dynamic DOMAIN.  Every handler is  *)
(* an operator from a state record S to the state record after the         *)
(* handler has run (awaited calls included); an action applies one handler *)
(* to the current state.                                                   *)
(***************************************************************************)
EXTENDS Integers, Sequences, FiniteSets, TLC

VARIABLES
    allocatedRanges,   \* PortManager.allocatedRanges : runId -> allocation
    usedPorts,         \* PortManager.usedPorts       : set of ports, as runs [lo, hi]
    runServices,       \* ServiceDependencyManager.runServices : runId -> service info
    tempFiles,         \* run ids whose working/ecosystem_<runId>.config.js exists
    procs,             \* PM2 process table : process name -> status
    bus,               \* PM2 bus: process:event exit packets not yet delivered
    runs,              \* EvolutionManager.runs : runId -> run metadata
    nextId,            \* the next ulid() (ids are unique and time-ordered)
    out,               \* the events emitted by the last handler, in order
    config,            \* AutoRunScheduler.config (without enabledTemplates)
    enabledTemplates,  \* AutoRunScheduler.config.enabledTemplates : array of entries
    schedulerPaused,   \* AutoRunScheduler.schedulerPaused
    timeSliceTimers,   \* AutoRunScheduler.timeSliceTimers : runId -> template of the armed expiry timer
    pauseReason,       \* AutoRunScheduler.pauseReason ("" stands for null)
    calls,             \* async calls suspended at an await: call id -> continuation
    activeSyncs,       \* SyncManager.activeSyncs : runId -> sync entry
    runState,          \* the file working/run-state.json : runId -> stored run
    isConnected        \* EvolutionManager.isConnected

vars == <<allocatedRanges, usedPorts, runServices, tempFiles, procs, bus, runs,
          nextId, out, config, enabledTemplates, schedulerPaused, timeSliceTimers,
          pauseReason, calls, activeSyncs, runState, isConnected>>

---------------------------------------------------------------------------
(* Bounds of the model *)

\* run ids the port-manager specification allocates for
MaxAllocRuns == 4
\* ulid()s the manager specifications may generate
MaxRuns == 2
\* exit packets on the bus that a handler may find undelivered when it starts
MaxPending == 1
\* run ids of the service dependency manager's specification
MaxServiceRuns == 2
\* consecutive failures the scheduler may count
MaxFailures == 4

(* Program constants *)

BasePort == 50000
portRangeSize == 1000
MaxCandidate == 65000

---------------------------------------------------------------------------
(* JavaScript Map helpers *)

Put(m, k, v) == [x \in (DOMAIN m) \cup {k} |-> IF x = k THEN v ELSE m[x]]
Del(m, k) == [x \in (DOMAIN m) \ {k} |-> m[x]]
EmptyMap == [x \in {} |-> 0]

---------------------------------------------------------------------------
(* PortManager *)

Exhausted == -1

\* usedPorts is a Set of port numbers that the code only reads with has()
\* and only changes by adding or deleting every port of lo..hi in a loop.
\* The set is kept as its maximal runs of consecutive ports, one record
\* [lo, hi] per run: two sets of ports are equal exactly when their runs are.
NoPorts == {}

\* usedPorts.has(port)
hasPort(used, port) == \E b \in used : b.lo <= port /\ port <= b.hi

\* for (port = lo; port <= hi; port++) usedPorts.add(port)
addPorts(used, lo, hi) ==
    IF lo > hi THEN used
    ELSE LET touching == {b \in used : b.lo <= hi + 1 /\ b.hi >= lo - 1}
             los == {b.lo : b \in touching} \cup {lo}
             his == {b.hi : b \in touching} \cup {hi}
             newLo == CHOOSE x \in los : \A y \in los : x <= y
             newHi == CHOOSE x \in his : \A y \in his : x >= y
         IN (used \ touching) \cup {[lo |-> newLo, hi |-> newHi]}

\* for (port = lo; port <= hi; port++) usedPorts.delete(port)
deletePorts(used, lo, hi) ==
    IF lo > hi THEN used
    ELSE LET untouched == {b \in used : b.hi < lo \/ b.lo > hi}
             cut == used \ untouched
             left == {[lo |-> b.lo, hi |-> lo - 1] : b \in {c \in cut : c.lo < lo}}
             right == {[lo |-> hi + 1, hi |-> b.hi] : b \in {c \in cut : c.hi > hi}}
         IN untouched \cup left \cup right

\* the loop over start..end finds a used port exactly when a run of used
\* ports meets start..end
isRangeInUse(used, start, end) ==
    start <= end /\ \E b \in used : b.lo <= end /\ start <= b.hi

RECURSIVE findFrom(_, _)
findFrom(used, candidate) ==
    IF isRangeInUse(used, candidate, candidate + portRangeSize - 1)
    THEN IF candidate + portRangeSize > MaxCandidate
         THEN Exhausted
         ELSE findFrom(used, candidate + portRangeSize)
    ELSE candidate

\* findAvailableRange that never hands out the last interval of the grid
findAvailableRange_OneShort(used) ==
    IF findFrom(used, BasePort) = MaxCandidate THEN Exhausted ELSE findFrom(used, BasePort)

\* findAvailableRange that searches above the highest used port only
findAvailableRange_AboveHighest(used) ==
    IF used = {} THEN BasePort
    ELSE findFrom(used, BasePort + portRangeSize
                        * (((CHOOSE b \in used : \A c \in used : c.hi <= b.hi).hi - BasePort)
                           \div portRangeSize))

findAvailableRange(used) == findFrom(used, BasePort)

\* allocatePortRange from "const allocation = ..." on: the allocation record
\* of runId at rangeStart, its ports marked as used; threw = TRUE when
\* findAvailableRange raised
markAllocation_NoMark(ar, used, runId, rangeStart) ==
    IF rangeStart = Exhausted
    THEN [ar |-> ar, used |-> used, threw |-> TRUE]
    ELSE [ar |-> Put(ar, runId, [rangeStart |-> rangeStart,
                                 rangeEnd |-> rangeStart + portRangeSize - 1]),
          used |-> used,
          threw |-> FALSE]

markAllocation(ar, used, runId, rangeStart) ==
    IF rangeStart = Exhausted
    THEN [ar |-> ar, used |-> used, threw |-> TRUE]
    ELSE [ar |-> Put(ar, runId, [rangeStart |-> rangeStart,
                                 rangeEnd |-> rangeStart + portRangeSize - 1]),
          used |-> addPorts(used, rangeStart, rangeStart + portRangeSize - 1),
          threw |-> FALSE]

\* allocatePortRange without the allocatedRanges.has(runId) check
allocatePortRange_NoCache(ar, used, runId) ==
    markAllocation(ar, used, runId, findAvailableRange(used))

\* the port manager after allocatePortRange(runId)
allocatePortRange(ar, used, runId) ==
    IF runId \in DOMAIN ar
    THEN [ar |-> ar, used |-> used, threw |-> FALSE]
    ELSE markAllocation(ar, used, runId, findAvailableRange(used))

\* the port manager after releasePortRange(runId), which never throws
releasePortRange(ar, used, runId) ==
    IF runId \in DOMAIN ar
    THEN [ar |-> Del(ar, runId),
          used |-> deletePorts(used, ar[runId].rangeStart, ar[runId].rangeEnd),
          threw |-> FALSE]
    ELSE [ar |-> ar, used |-> used, threw |-> FALSE]

---------------------------------------------------------------------------
(* Templates on disk (external to the core).  "A" and "B" have an          *)
(* ecosystem config, "N" is a template without one, "X" does not exist.    *)
(* "Q" has an ecosystem config with the CLAP feature service, as the       *)
(* ecosystem generator writes it.                                          *)

TemplateExists(t) == t \in {"A", "B", "N", "Q"}
HasEcosystem(t) == t \in {"A", "B", "Q"}
EcosystemApps(t) ==
    IF t = "Q"
    THEN <<"kromosynth-gRPC-variation", "kromosynth-clap-service">>
    ELSE IF HasEcosystem(t)
    THEN <<"kromosynth-gRPC-variation", "kromosynth-render-socket-server">>
    ELSE << >>

---------------------------------------------------------------------------
(* PM2: process names, the process table and the bus *)

NoCode == -1
ExitCodes == {0, 1}
StartOutcomes == {"online", "errored", "nostart"}

\* `kromosynth-evolution-${runId}`
EvoName(runId) == [prefix |-> "kromosynth-evolution", sep |-> "-", id |-> runId]

mapAppToServiceType(appName) ==
    CASE appName = "kromosynth-gRPC-variation" -> "geneVariation"
      [] appName = "kromosynth-render-socket-server" -> "geneRendering"
      [] appName = "kromosynth-evaluation-socket-server_features" -> "evaluationFeatures"
      [] appName = "kromosynth-evaluation-socket-server_quality_ref_features" -> "evaluationQuality"
      [] appName = "kromosynth-evaluation-socket-server_projection_pca_quantised" -> "evaluationProjection"
      [] OTHER -> "null"

\* generateRunEcosystemConfig: `${app.name}_${runId}` for an app of a known
\* service type, the bare app name (id 0) otherwise
RunAppName(appName, runId) ==
    IF mapAppToServiceType(appName) # "null"
    THEN [prefix |-> appName, sep |-> "_", id |-> runId]
    ELSE [prefix |-> appName, sep |-> "", id |-> 0]

\* extractRunId(processName); 0 stands for null
extractRunId(name) ==
    IF name.prefix = "kromosynth-evolution" /\ name.sep = "-" THEN name.id
    ELSE IF name.sep = "_" THEN name.id
    ELSE 0

\* pm2.start: "nostart" is a start that errors and leaves the table as it
\* was; otherwise the process is (re)started and is online, or errored when
\* it crashes right away
pm2Start(S, name, outcome) ==
    IF outcome = "nostart"
    THEN [S EXCEPT !.threw = TRUE]
    ELSE [S EXCEPT !.procs = Put(S.procs, name, outcome), !.threw = FALSE]

\* a compute process that dies sends process:event exit on the bus
ExitPacket(S, name, code) ==
    IF name \in DOMAIN S.procs /\ S.procs[name] = "online"
       /\ name.prefix = "kromosynth-evolution"
    THEN S.bus \cup {[runId |-> name.id, exitCode |-> code]}
    ELSE S.bus

\* await pm2Stop(name); await pm2Delete(name) inside one try block
pm2StopDelete(S, name, code) ==
    IF name \notin DOMAIN S.procs
    THEN S
    ELSE [S EXCEPT !.procs = Del(S.procs, name), !.bus = ExitPacket(S, name, code)]

\* socketHandler.emit(type, {runId, reason, exitCode}); the socket handler is
\* set by setupWebSocket in the tick that constructs the manager
Emit(S, type, runId, reason, exitCode) ==
    [S EXCEPT !.out = Append(S.out, [src |-> "socket", type |-> type, runId |-> runId,
                                     reason |-> reason, exitCode |-> exitCode])]

\* AutoRunScheduler.emit(type, {runId, ...}) (the scheduler is an EventEmitter);
\* the payload of auto-run-status-change is getStatus(), which is the state
EmitSched(S, type, runId, reason) ==
    [S EXCEPT !.out = Append(S.out, [src |-> "scheduler", type |-> type, runId |-> runId,
                                     reason |-> reason, exitCode |-> NoCode])]

---------------------------------------------------------------------------
(* Suspended calls.  An async function that reaches an await of real work   *)
(* is suspended: S.calls maps a call to what it continues with.             *)

freeCall(S) == CHOOSE k \in 1..(Cardinality(DOMAIN S.calls) + 1) : k \notin DOMAIN S.calls

suspend(S, continuation) == [S EXCEPT !.calls = Put(S.calls, freeCall(S), continuation)]

\* the state a suspended call continues in: the call is no longer suspended
\* and its own local result is in S.err
continued(S, k) == [S EXCEPT !.calls = Del(S.calls, k), !.err = S.calls[k].err]

---------------------------------------------------------------------------
(* SyncManager.  S.syncs is activeSyncs: run id -> the entry's syncing      *)
(* flag, consecutiveErrors, interval (whether the setInterval timer is set), *)
(* initial (whether the 30 s setTimeout of _startPeriodicSync is pending)   *)
(* and the two steps its config enables.  A sync cycle awaits sqlite3_rsync *)
(* and HTTP uploads, so a cycle that starts is a suspended call (op         *)
(* "sync"); its field step names the step it awaits, its field after what   *)
(* its caller does when it settles.  registerRun awaits too (op "register").*)

\* SYNC_RETRY_MAX_ATTEMPTS (5 when it is unset)
retryMaxAttempts == 2

\* HTTP statuses of the central service's answer to the list request
HttpOk == 200

HttpNotFound == 404

HttpErrors == {401, 403, 500}

\* failed cycles in a row that are counted
MaxSyncErrors == 3

\* registerRun up to its first await: env.sync says whether sync is enabled
\* and configured for the run (else registerRun returns without an entry);
\* env.databases and env.analysis say which steps the config enables
registerRun(S, runId, env) ==
    IF env.sync
    THEN suspend([S EXCEPT !.syncs = Put(S.syncs, runId,
                                         [syncing |-> FALSE, consecutiveErrors |-> 0,
                                          interval |-> FALSE, initial |-> FALSE,
                                          databases |-> env.databases,
                                          analysis |-> env.analysis])],
                 [op |-> "register", runId |-> runId, err |-> "", after |-> "none",
                  step |-> "", analysis |-> FALSE])
    ELSE S

\* _startPeriodicSync: setInterval, and the initial sync after 30 s
startPeriodicSync(S, runId) ==
    IF runId \notin DOMAIN S.syncs THEN S
    ELSE [S EXCEPT !.syncs[runId].interval = TRUE, !.syncs[runId].initial = TRUE]

\* _stopPeriodicSync: clearInterval
stopPeriodicSync(S, runId) ==
    IF runId \notin DOMAIN S.syncs THEN S
    ELSE [S EXCEPT !.syncs[runId].interval = FALSE]

\* registerRun from its awaits on
registerRunContinue(S, k) ==
    Emit(startPeriodicSync(continued(S, k), S.calls[k].runId),
         "sync-registered", S.calls[k].runId, "", NoCode)

\* unregisterRun: clearInterval and activeSyncs.delete
unregisterRun(S, runId) == [S EXCEPT !.syncs = Del(S.syncs, runId)]

\* the try block of _executeSync with both steps started at once
syncSteps_Parallel(S, runId, after) ==
    IF S.syncs[runId].databases /\ S.syncs[runId].analysis
    THEN suspend(suspend(Emit(Emit(S, "sync-started", runId, "databases", NoCode),
                              "sync-started", runId, "analysis", NoCode),
                         [op |-> "sync", runId |-> runId, err |-> "", after |-> after,
                          step |-> "databases", analysis |-> FALSE]),
                 [op |-> "sync", runId |-> runId, err |-> "", after |-> "none",
                  step |-> "analysis", analysis |-> FALSE])
    ELSE suspend(Emit(S, "sync-started", runId,
                      IF S.syncs[runId].databases THEN "databases" ELSE "analysis", NoCode),
                 [op |-> "sync", runId |-> runId, err |-> "", after |-> after,
                  step |-> IF S.syncs[runId].databases THEN "databases" ELSE "analysis",
                  analysis |-> FALSE])

\* the try block of _executeSync up to its first await: the first step that
\* the config enables is begun
syncSteps(S, runId, after) ==
    suspend(Emit(S, "sync-started", runId,
                 IF S.syncs[runId].databases THEN "databases" ELSE "analysis", NoCode),
            [op |-> "sync", runId |-> runId, err |-> "", after |-> after,
             step |-> IF S.syncs[runId].databases THEN "databases" ELSE "analysis",
             analysis |-> S.syncs[runId].databases /\ S.syncs[runId].analysis])

\* _executeSync without the entry.syncing check
executeSync_NoGuard(S, runId, after) ==
    IF runId \notin DOMAIN S.syncs THEN S
    ELSE syncSteps(Emit([S EXCEPT !.syncs[runId].syncing = TRUE],
                        "sync-started", runId, "", NoCode),
                   runId, after)

\* _executeSync up to its first await
executeSync(S, runId, after) ==
    IF runId \notin DOMAIN S.syncs THEN S
    ELSE IF S.syncs[runId].syncing THEN S
    ELSE syncSteps(Emit([S EXCEPT !.syncs[runId].syncing = TRUE],
                        "sync-started", runId, "", NoCode),
                   runId, after)

\* whether _executeSync(runId) would start a cycle
syncStarts(S, runId) == runId \in DOMAIN S.syncs /\ ~S.syncs[runId].syncing

\* triggerSync(runId, reason): no entry, no cycle
triggerSync(S, runId, after) == executeSync(S, runId, after)

\* the initial sync: the setTimeout callback of _startPeriodicSync
initialSync(S, runId) ==
    IF runId \notin DOMAIN S.syncs THEN S
    ELSE executeSync([S EXCEPT !.syncs[runId].initial = FALSE], runId, "none")

\* the database step of a cycle has returned and the analysis step begins
executeSyncAnalysis(S, k) ==
    Emit([S EXCEPT !.calls[k].step = "analysis", !.calls[k].analysis = FALSE],
         "sync-started", S.calls[k].runId, "analysis", NoCode)

\* the end of the try block: entry.consecutiveErrors = 0
syncSucceeded(S, runId) ==
    IF runId \in DOMAIN S.syncs
    THEN [S EXCEPT !.syncs[runId].consecutiveErrors = 0]
    ELSE S

\* the catch block: entry.consecutiveErrors++, and _stopPeriodicSync when
\* the count has reached retryMaxAttempts
syncFailed(S, runId) ==
    IF runId \notin DOMAIN S.syncs THEN S
    ELSE IF S.syncs[runId].consecutiveErrors + 1 >= retryMaxAttempts
    THEN stopPeriodicSync([S EXCEPT !.syncs[runId].consecutiveErrors = @ + 1], runId)
    ELSE [S EXCEPT !.syncs[runId].consecutiveErrors = @ + 1]

\* _getRemoteFileList: the files of a 200 answer, [] for a 404, and any
\* other error of the request is thrown again
getRemoteFileList(status) ==
    IF status = HttpOk THEN [threw |-> FALSE, message |-> ""]
    ELSE IF status = HttpNotFound THEN [threw |-> FALSE, message |-> ""]
    ELSE [threw |-> TRUE, message |-> "list request failed"]

\* _syncAnalysisFiles: the catch block around a directory's list request
\* pushes the error to results.errors, and the results are returned
syncAnalysisFiles(status) ==
    [threw |-> FALSE, errors |-> getRemoteFileList(status).message]

\* the analysis step of cycle k has awaited _syncAnalysisFiles, whose list
\* request was answered with status
syncAnalysisListed(S, k, status) ==
    [S EXCEPT !.calls[k].err = syncAnalysisFiles(status).errors]

\* the finally block resets the flag of the entry the cycle started with (one
\* entry is ever made per run id: registerRun is called by startRun only)
syncFinally(S, k, ok) ==
    Emit([S EXCEPT !.calls = Del(S.calls, k),
                   !.syncs = IF S.calls[k].runId \in DOMAIN S.syncs
                             THEN [S.syncs EXCEPT ![S.calls[k].runId].syncing = FALSE]
                             ELSE S.syncs],
         IF ok THEN "sync-completed" ELSE "sync-error", S.calls[k].runId,
         S.calls[k].err, NoCode)

\* _executeSync from its last await on: sync-completed or sync-error
executeSyncSettled(S, k, ok) ==
    syncFinally(IF ok THEN syncSucceeded(S, S.calls[k].runId)
                      ELSE syncFailed(S, S.calls[k].runId),
                k, ok)

\* SyncManager.shutdown(): the intervals are cleared and activeSyncs.clear()
syncShutdown(S) == [S EXCEPT !.syncs = EmptyMap]

---------------------------------------------------------------------------
(* ServiceDependencyManager *)

\* the state with the port manager as a call left it
withPorts(S, pm) == [S EXCEPT !.ar = pm.ar, !.used = pm.used, !.threw = pm.threw]

RECURSIVE stopServices(_, _, _)
stopServices(S, names, services) ==
    IF names = {} THEN S
    ELSE LET n == CHOOSE x \in names : TRUE IN
         stopServices(IF services[n] = "started" THEN pm2StopDelete(S, n, NoCode) ELSE S,
                      names \ {n}, services)

\* stopServicesForRun after its loop over the services: the temp file, the
\* port range and the runServices entry go
forgetServices(S, runId) ==
    [withPorts(S, releasePortRange(S.ar, S.used, runId))
        EXCEPT !.tmp = S.tmp \ {runId}, !.rs = Del(S.rs, runId)]

stopServicesForRun(S, runId) ==
    IF runId \notin DOMAIN S.rs
    THEN S
    ELSE forgetServices(stopServices(S, DOMAIN S.rs[runId].services,
                                     S.rs[runId].services), runId)

\* the {name, status} entry of an app whose pm2Start has returned or thrown
recordStart(S, name) ==
    [S EXCEPT !.results = Put(S.results, name, IF S.threw THEN "failed" ELSE "started")]

\* step 5: start every app of the run's ecosystem config, collecting
\* {name, status} per app
RECURSIVE startApps(_, _, _, _, _)
startApps(S, runId, apps, svc, i) ==
    IF i > Len(apps) THEN S
    ELSE startApps(recordStart(pm2Start(S, RunAppName(apps[i], runId), svc[apps[i]]),
                               RunAppName(apps[i], runId)),
                   runId, apps, svc, i + 1)

\* waitForServicesReady: the processes whose name includes `_${runId}`
runProcesses(S, runId) == {n \in DOMAIN S.procs : n.sep = "_" /\ n.id = runId}

allOnline(S, runId) ==
    /\ runProcesses(S, runId) # {}
    /\ \A n \in runProcesses(S, runId) : S.procs[n] = "online"

\* startServicesForRun from waitForServicesReady on; a timeout lands in the
\* catch block, which calls stopServicesForRun and rethrows
waitForServicesReady(S, runId) ==
    IF allOnline(S, runId)
    THEN [S EXCEPT !.err = ""]
    ELSE [stopServicesForRun(S, runId) EXCEPT !.err = "did not become ready"]

\* this.runServices.set(runId, {services: results, ...})
storeRunServices(S, runId) ==
    [S EXCEPT !.rs = Put(S.rs, runId, [services |-> S.results]), !.threw = FALSE]

\* startServicesForRun after allocatePortRange
startAllocated(S, runId, templateName, env) ==
    IF S.threw
    THEN [stopServicesForRun(S, runId) EXCEPT !.err = "Unable to allocate port range"]
    ELSE IF ~HasEcosystem(templateName)
    THEN [stopServicesForRun(S, runId) EXCEPT !.err = "No ecosystem template found"]
    ELSE IF env.fault = "tmpwrite"
    THEN [stopServicesForRun(S, runId) EXCEPT !.err = "write failed"]
    ELSE waitForServicesReady(
            storeRunServices(
                startApps([S EXCEPT !.tmp = S.tmp \cup {runId}, !.results = EmptyMap],
                          runId, EcosystemApps(templateName), env.svc, 1),
                runId),
            runId)

\* startServicesForRun; env.fault = "tmpwrite" makes the write of the
\* temporary ecosystem file fail, env.svc gives each app's start outcome.
\* S.err is "" on success, else the error raised.
startServicesForRun(S, runId, templateName, env) ==
    startAllocated(withPorts(S, allocatePortRange(S.ar, S.used, runId)),
                   runId, templateName, env)

---------------------------------------------------------------------------
(* EvolutionManager: pure parts *)

NoEcosystem == "No ecosystem template found"

\* the PM2 list order of the processes of one run: its services in the
\* order of the ecosystem config, then the compute process, which every
\* start and resume launches last
AllApps == <<"kromosynth-gRPC-variation", "kromosynth-render-socket-server">>

RunProcSeq(runId) ==
    [i \in 1..(Len(AllApps) + 1) |->
        IF i <= Len(AllApps) THEN RunAppName(AllApps[i], runId) ELSE EvoName(runId)]

\* getAllRuns assigns run.status once per listed process of the run, so the
\* last listed process decides
RECURSIVE lastListed(_, _, _)
lastListed(S, runId, i) ==
    IF i = 0 THEN "none"
    ELSE IF RunProcSeq(runId)[i] \in DOMAIN S.procs
              /\ extractRunId(RunProcSeq(runId)[i]) = runId
         THEN S.procs[RunProcSeq(runId)[i]]
         ELSE lastListed(S, runId, i - 1)

statusFromPm2(pm2Status, old) ==
    CASE pm2Status = "online" -> "running"
      [] pm2Status = "stopped" -> "stopped"
      [] pm2Status = "errored" -> "failed"
      [] OTHER -> old

getAllRuns(S) ==
    [S EXCEPT !.runs = [r \in DOMAIN S.runs |->
        [S.runs[r] EXCEPT !.status =
            statusFromPm2(lastListed(S, r, Len(AllApps) + 1), S.runs[r].status)]]]

exitReason_Swapped(exitCode) == IF exitCode = 0 THEN "failed" ELSE "terminated"

exitReason(exitCode) == IF exitCode = 0 THEN "terminated" ELSE "failed"

---------------------------------------------------------------------------
(* EvolutionManager: the run state file.  S.disk is its content: run id ->  *)
(* the stored record.  A timestamp is modelled by the name of the handler   *)
(* that read the clock ("" stands for null).                                *)

\* the fields of a run that saveRunState writes; exitCode is not among them
stored(run) ==
    [status |-> run.status, templateName |-> run.templateName,
     autoScheduled |-> run.autoScheduled, pausedByScheduler |-> run.pausedByScheduler,
     pauseCount |-> run.pauseCount, stoppedAt |-> run.stoppedAt,
     generation |-> run.generation]

\* the state object is built before the first await, and written as a whole
saveRunState(S) == [S EXCEPT !.disk = [r \in DOMAIN S.runs |-> stored(S.runs[r])]]

\* saveRunState up to its first await (fs.ensureDir): the state object is
\* built from this.runs, the write is still to come
saveRunStateBegin(S) ==
    [S EXCEPT !.calls = Put(S.calls, freeCall(S),
                            [op |-> "saveRunState", runId |-> 0, err |-> "",
                             state |-> [r \in DOMAIN S.runs |-> stored(S.runs[r])]])]

\* fs.writeJson of a saveRunState in flight: the file becomes the state
\* object that call built
saveRunStateWrite(S, k) ==
    [S EXCEPT !.calls = Del(S.calls, k), !.disk = S.calls[k].state]

\* a saveRunState() that its caller does not await; env.deferWrite: other
\* handlers run before the write
saveRunStateCall(S, env) ==
    IF env.deferWrite THEN saveRunStateBegin(S) ELSE saveRunState(S)

\* the run object that JSON gives back: a field that was not written is
\* undefined
parsed(rec) ==
    [status |-> rec.status, templateName |-> rec.templateName,
     autoScheduled |-> rec.autoScheduled, pausedByScheduler |-> rec.pausedByScheduler,
     pauseCount |-> rec.pauseCount, exitCode |-> NoCode, stoppedAt |-> rec.stoppedAt,
     generation |-> rec.generation]

\* loadRunState for one stored run whose pm2Name PM2 lists
restoreListed(run, pm2Status) ==
    [run EXCEPT !.status = IF pm2Status = "online" THEN "running"
                           ELSE IF pm2Status = "errored" THEN "failed"
                           ELSE "stopped"]

\* loadRunState for one stored run whose pm2Name PM2 does not list
restoreGone(run) ==
    IF run.status # "running" THEN run
    ELSE IF ~run.pausedByScheduler
    THEN [run EXCEPT !.status = "stopped",
                     !.stoppedAt = IF @ # "" THEN @ ELSE "loadRunState"]
    ELSE [run EXCEPT !.status = "paused"]

\* loadRunState: every stored run is reconciled with pm2List() and set in
\* the run map
loadRunState(S) ==
    [S EXCEPT !.runs = [r \in DOMAIN S.runs \cup DOMAIN S.disk |->
        IF r \notin DOMAIN S.disk THEN S.runs[r]
        ELSE IF EvoName(r) \in DOMAIN S.procs
        THEN restoreListed(parsed(S.disk[r]), S.procs[EvoName(r)])
        ELSE restoreGone(parsed(S.disk[r]))]]

---------------------------------------------------------------------------
(* EvolutionManager: startRun, resumeRun, pauseRun *)

\* startRun(templateName, {autoScheduled}); the id it generates is S.nextId.
\* env.fault: "config" makes prepareRunConfig / the config write fail,
\* "spawn" makes pm2Start of the compute process fail.
\* The catch block calls stopRun(runId), which throws "not found" at once:
\* the run is stored only after the last step that can fail.
\* this.runs.set(runId, run)
storeRun(S, runId, templateName, autoScheduled) ==
    [S EXCEPT !.runs = Put(S.runs, runId,
                           [status |-> "running",
                            templateName |-> templateName,
                            autoScheduled |-> autoScheduled,
                            pausedByScheduler |-> FALSE,
                            pauseCount |-> 0,
                            exitCode |-> NoCode,
                            stoppedAt |-> "",
                            generation |-> 0]),
              !.err = ""]

\* startRun after startServicesForRun
startRunWithServices(S, runId, templateName, autoScheduled, env) ==
    IF S.err \notin {"", NoEcosystem}
    THEN S
    ELSE IF env.fault = "config"
    THEN [S EXCEPT !.err = "config write failed"]
    ELSE IF env.fault = "spawn"
    THEN [S EXCEPT !.err = "spawn failed"]
    ELSE registerRun(Emit(saveRunState(storeRun(pm2Start(S, EvoName(runId), "online"),
                                                runId, templateName, autoScheduled)),
                          "run-started", runId, "", NoCode),
                     runId, env)

startRun(S, templateName, autoScheduled, env) ==
    IF ~TemplateExists(templateName)
    THEN [S EXCEPT !.nextId = S.nextId + 1, !.err = "template not found"]
    ELSE startRunWithServices(
            startServicesForRun([S EXCEPT !.nextId = S.nextId + 1],
                                S.nextId, templateName, env),
            S.nextId, templateName, autoScheduled, env)

\* pm2Delete of a stale compute process (resumeRun, step 3)
pm2Delete(S, name, code) ==
    IF name \notin DOMAIN S.procs
    THEN S
    ELSE [S EXCEPT !.procs = Del(S.procs, name), !.bus = ExitPacket(S, name, code)]

\* resumeRun after the stale compute process is deleted
resumeRunSpawn(S, runId, env) ==
    IF env.fault = "spawn"
    THEN [S EXCEPT !.err = "spawn failed"]
    ELSE Emit(saveRunState([pm2Start(S, EvoName(runId), "online")
                               EXCEPT !.runs[runId].status = "running",
                                      !.runs[runId].stoppedAt = "", !.err = ""]),
              "run-started", runId, "resumed", NoCode)

\* resumeRun after startServicesForRun
resumeRunWithServices(S, runId, env) ==
    IF S.err \notin {"", NoEcosystem}
    THEN S
    ELSE IF S.err = "" /\ env.fault = "config"
    THEN [S EXCEPT !.err = "config write failed"]
    ELSE resumeRunSpawn(pm2Delete(S, EvoName(runId), env.code), runId, env)

resumeRun(S, runId, env) ==
    IF runId \notin DOMAIN S.runs
    THEN [S EXCEPT !.err = "not found"]
    ELSE IF S.runs[runId].status = "running"
    THEN [S EXCEPT !.err = "already running"]
    ELSE resumeRunWithServices(
            startServicesForRun(S, runId, S.runs[runId].templateName, env), runId, env)

\* pauseRunStopped without the await this.saveRunState() at its end
pauseRunStopped_NoSave(S, runId) ==
    triggerSync(
        Emit([stopServicesForRun(S, runId) EXCEPT !.runs[runId].status = "paused", !.err = ""],
             "run-paused", runId, "", NoCode),
        runId, "none")

\* pauseRun after its step 1 (the compute process is stopped and deleted)
pauseRunStopped(S, runId) ==
    saveRunState(triggerSync(
        Emit([stopServicesForRun(S, runId) EXCEPT !.runs[runId].status = "paused", !.err = ""],
             "run-paused", runId, "", NoCode),
        runId, "none"))

pauseRun(S, runId, env) ==
    IF runId \notin DOMAIN S.runs
    THEN [S EXCEPT !.err = "not found"]
    ELSE IF S.runs[runId].status # "running"
    THEN [S EXCEPT !.err = "not running"]
    ELSE pauseRunStopped(pm2StopDelete(S, EvoName(runId), env.code), runId)

---------------------------------------------------------------------------
(* AutoRunScheduler.  S.tmpl is config.enabledTemplates, an array of        *)
(* {templateName, enabled, priority, currentRunId, lastRunAt}; 0 stands for *)
(* null.  lastRunAt keeps the order of the timestamps only.                 *)

maxFailuresBeforePause == 3
MinFailuresBeforePause == 1

\* `Too many consecutive failures (${n})`
TooManyFailures == "Too many consecutive failures"
MinConcurrent == 1
MaxConcurrent == 5

activeScheduledRuns(S) ==
    {r \in DOMAIN S.runs : S.runs[r].autoScheduled /\ S.runs[r].status = "running"}

\* the indices of the enabled templates without an active run
availableTemplates(S) ==
    {i \in 1..Len(S.tmpl) :
        /\ S.tmpl[i].enabled
        /\ \/ S.tmpl[i].currentRunId = 0
           \/ S.tmpl[i].currentRunId \notin DOMAIN S.runs
           \/ S.runs[S.tmpl[i].currentRunId].status \in {"stopped", "terminated", "failed"}}

\* selectNextTemplate: an index of S.tmpl, 0 for null.  In round-robin mode
\* the comparator puts every template without lastRunAt first and does not
\* order them among themselves: env.pick chooses among them.
selectNextTemplate(S, env) ==
    LET avail == availableTemplates(S)
        nulls == {i \in avail : S.tmpl[i].lastRunAt = 0}
    IN
    IF avail = {} THEN 0
    ELSE IF S.config.schedulingMode = "priority"
    THEN CHOOSE i \in avail : \A j \in avail :
            \/ S.tmpl[i].priority < S.tmpl[j].priority
            \/ (S.tmpl[i].priority = S.tmpl[j].priority /\ i <= j)
    ELSE IF nulls # {}
    THEN IF env.pick \in nulls THEN env.pick ELSE CHOOSE i \in nulls : \A j \in nulls : i <= j
    ELSE CHOOSE i \in avail : \A j \in avail :
            \/ S.tmpl[i].lastRunAt < S.tmpl[j].lastRunAt
            \/ (S.tmpl[i].lastRunAt = S.tmpl[j].lastRunAt /\ i <= j)

pausedRunsOf(S, templateName) ==
    {r \in DOMAIN S.runs : /\ S.runs[r].templateName = templateName
                           /\ S.runs[r].status = "paused"
                           /\ S.runs[r].pausedByScheduler}

\* findPausedRun: the first run of the template that is paused by the
\* scheduler, 0 for null
findPausedRun(S, templateName) ==
    IF pausedRunsOf(S, templateName) = {} THEN 0
    ELSE CHOOSE r \in pausedRunsOf(S, templateName) :
            \A q \in pausedRunsOf(S, templateName) : r <= q

\* template i gets lastRunAt = now, later than every other timestamp
stampNow(tmpl, i) ==
    LET others == {tmpl[j].lastRunAt : j \in (1..Len(tmpl)) \ {i}} \ {0}
        rank(v) == Cardinality({w \in others : w <= v})
    IN [j \in 1..Len(tmpl) |->
          IF j = i THEN [tmpl[j] EXCEPT !.lastRunAt = Cardinality(others) + 1]
          ELSE IF tmpl[j].lastRunAt = 0 THEN tmpl[j]
          ELSE [tmpl[j] EXCEPT !.lastRunAt = rank(tmpl[j].lastRunAt)]]

\* resumeOrStartRun once the run is resumed or started: the template's
\* currentRunId and lastRunAt, and the time-slice timer
startTimeSlice(S, i, runId) ==
    IF S.err # "" THEN S
    ELSE EmitSched([S EXCEPT !.tmpl = stampNow([S.tmpl EXCEPT ![i].currentRunId = runId], i),
                             !.timers = Put(S.timers, runId, S.tmpl[i].templateName)],
                   "time-slice-started", runId, "")

\* this.emit('run-resumed', ...) after a resumeRun that did not throw
emitResumed(S, runId) ==
    IF S.err # "" THEN S ELSE EmitSched(S, "run-resumed", runId, "")

\* resumeOrStartRun after findPausedRun
resumeOrStart(S, i, pausedRun, env) ==
    IF pausedRun # 0
    THEN startTimeSlice(emitResumed(resumeRun(S, pausedRun, env), pausedRun), i, pausedRun)
    ELSE startTimeSlice(startRun(S, S.tmpl[i].templateName, TRUE, env), i, S.nextId)

\* resumeOrStartRun after getAllRuns
resumeOrStartListed(S, i, env) ==
    resumeOrStart(S, i, findPausedRun(S, S.tmpl[i].templateName), env)

resumeOrStartRun(S, i, env) == resumeOrStartListed(getAllRuns(S), i, env)

\* this.isScheduling: a scheduleNextRun call is between its try and finally
isScheduling(S) == \E k \in DOMAIN S.calls : S.calls[k].op = "scheduleNextRun"

\* scheduleNextRun after selectNextTemplate; an error of resumeOrStartRun is
\* caught and logged.  env.async says whether other handlers run while
\* resumeOrStartRun is awaited: the call is then suspended with its template
scheduleSelected(S, i, env) ==
    IF i = 0 THEN S
    ELSE IF env.async
    THEN suspend(S, [op |-> "scheduleNextRun", runId |-> 0, err |-> "", template |-> i])
    ELSE [resumeOrStartRun(S, i, env) EXCEPT !.err = ""]

\* scheduleNextRun from await resumeOrStartRun(template) on
scheduleNextRunContinue(S, k, env) ==
    [resumeOrStartRun(continued(S, k), S.calls[k].template, env) EXCEPT !.err = ""]

\* scheduleNextRun after getAllRuns
scheduleListed(S, env) ==
    IF Cardinality(activeScheduledRuns(S)) >= S.config.maxConcurrentRuns THEN S
    ELSE scheduleSelected(S, selectNextTemplate(S, env), env)

scheduleNextRun(S, env) ==
    IF ~S.config.enabled \/ S.paused \/ isScheduling(S) THEN S
    ELSE scheduleListed(getAllRuns(S), env)

RECURSIVE scheduleTimes(_, _, _)
scheduleTimes(S, n, env) ==
    IF n <= 0 THEN S ELSE scheduleTimes(scheduleNextRun(S, env), n - 1, env)

\* startScheduling after getAllRuns
startSchedulingListed(S, env) ==
    scheduleTimes(S, S.config.maxConcurrentRuns - Cardinality(activeScheduledRuns(S)), env)

startScheduling(S, env) ==
    IF ~S.config.enabled \/ S.paused THEN S
    ELSE IF \A i \in 1..Len(S.tmpl) : ~S.tmpl[i].enabled THEN S
    ELSE startSchedulingListed(getAllRuns(S), env)

clearTimeSliceTimer(S, runId) == [S EXCEPT !.timers = Del(S.timers, runId)]

clearAllTimers(S) == [S EXCEPT !.timers = EmptyMap]

pause(S, reason) ==
    EmitSched([clearAllTimers(S) EXCEPT !.paused = TRUE, !.reason = reason],
              "auto-run-status-change", 0, "")

\* onRunEnded: template.currentRunId = null for the template of the run
clearCurrentRun(S, runId) ==
    [S EXCEPT !.tmpl = [j \in 1..Len(S.tmpl) |->
        IF S.tmpl[j].currentRunId = runId
           /\ \A k \in 1..(j - 1) : S.tmpl[k].currentRunId # runId
        THEN [S.tmpl[j] EXCEPT !.currentRunId = 0]
        ELSE S.tmpl[j]]]

\* onRunEnded: the consecutive-failure counter
countFailure(S, reason) ==
    IF reason = "failed"
    THEN [S EXCEPT !.config.consecutiveFailures = @ + 1]
    ELSE [S EXCEPT !.config.consecutiveFailures = 0]

\* onRunEnded after the counter is updated
onRunEndedCounted(S, runId, reason, env) ==
    IF /\ reason = "failed"
       /\ S.config.pauseOnFailure
       /\ S.config.consecutiveFailures >= S.config.maxFailuresBeforePause
    THEN pause(S, TooManyFailures)
    ELSE IF S.config.enabled /\ ~S.paused
    THEN scheduleNextRun(EmitSched(S, "run-ended", runId, reason), env)
    ELSE EmitSched(S, "run-ended", runId, reason)

onRunEnded(S, runId, reason, env) ==
    onRunEndedCounted(
        countFailure(clearCurrentRun(clearTimeSliceTimer(S, runId), runId), reason),
        runId, reason, env)

\* pauseRunForScheduling after pauseRun: run.pauseCount = (run.pauseCount || 0) + 1
markPausedByScheduler(S, runId) ==
    IF S.err # "" THEN S
    ELSE EmitSched([S EXCEPT !.runs[runId].pausedByScheduler = TRUE,
                             !.runs[runId].pauseCount = @ + 1],
                   "run-paused", runId, "")

pauseRunForScheduling(S, runId, env) ==
    markPausedByScheduler(pauseRun(S, runId, env), runId)

\* onTimeSliceExpired: the template of the timer's config gets its
\* timeSliceMinutes added to totalRunTimeMinutes (counted in time slices)
\* and keeps its currentRunId
addRunTime(S, templateName) ==
    [S EXCEPT !.tmpl = [j \in 1..Len(S.tmpl) |->
        IF S.tmpl[j].templateName = templateName
           /\ \A k \in 1..(j - 1) : S.tmpl[k].templateName # templateName
        THEN [S.tmpl[j] EXCEPT !.totalRunTimeMinutes = @ + 1]
        ELSE S.tmpl[j]]]

\* onTimeSliceExpired after pauseRunForScheduling; the timer was set for the
\* template of the run
onTimeSlicePaused(S, runId, env) ==
    IF S.err # "" THEN S
    ELSE scheduleNextRun(EmitSched(addRunTime(S, S.runs[runId].templateName),
                                   "time-slice-expired", runId, ""), env)

\* onTimeSliceExpired after clearTimeSliceTimer
onTimeSliceCleared(S, runId, env) ==
    IF runId \notin DOMAIN S.runs \/ S.runs[runId].status # "running"
    THEN scheduleNextRun(S, env)
    ELSE onTimeSlicePaused(pauseRunForScheduling(S, runId, env), runId, env)

onTimeSliceExpired(S, runId, env) ==
    onTimeSliceCleared(clearTimeSliceTimer(S, runId), runId, env)

---------------------------------------------------------------------------
(* EvolutionManager: stopRun and the exit handler, which notify the         *)
(* scheduler                                                                *)

\* if (this.autoRunScheduler && run.autoScheduled) onRunEnded(runId, reason)
notifyScheduler(S, runId, reason, env) ==
    IF S.runs[runId].autoScheduled THEN onRunEnded(S, runId, reason, env) ELSE S

\* stopRun after its final sync has settled or was skipped
stopRunSynced(S, runId, env) ==
    notifyScheduler(saveRunState(unregisterRun(S, runId)), runId, "stopped", env)

\* await triggerSync(runId, 'stop'): stopRun waits for the cycle it starts
stopRunSync(S, runId, env) ==
    IF syncStarts(S, runId)
    THEN triggerSync(S, runId, "stopRun")
    ELSE stopRunSynced(S, runId, env)

\* stopRun after its step 1 (the compute process is stopped and deleted)
stopRunStopped(S, runId, env) ==
    stopRunSync(
        Emit([stopServicesForRun(S, runId)
                 EXCEPT !.runs[runId].status = "stopped",
                        !.runs[runId].stoppedAt = "stopRun", !.err = ""],
             "run-stopped", runId, "", NoCode),
        runId, env)

stopRun(S, runId, env) ==
    IF runId \notin DOMAIN S.runs
    THEN [S EXCEPT !.err = "not found"]
    ELSE stopRunStopped(pm2StopDelete(S, EvoName(runId), env.code), runId, env)

\* the exit handler's classification: reason and run.status are the same
\* word, and a non-zero exit code is recorded on the run
recordExit(S, runId, exitCode) ==
    [S EXCEPT !.runs[runId].status = exitReason(exitCode),
              !.runs[runId].exitCode = IF exitCode = 0 THEN @ ELSE exitCode]

\* triggerSync(runId, reason).catch(..).finally(() => unregisterRun(runId)),
\* not awaited: a cycle that starts is left in flight, and the run is
\* unregistered when triggerSync settles (at once when no cycle starts)
exitSync(S, runId) ==
    IF syncStarts(S, runId)
    THEN triggerSync(S, runId, "unregisterRun")
    ELSE unregisterRun(S, runId)

\* handleProcessEvent for an exit packet of a compute process
handleProcessEvent(S, packet, env) ==
    IF packet.runId \notin DOMAIN S.runs THEN S
    ELSE IF S.runs[packet.runId].status = "paused" THEN S
    ELSE notifyScheduler(
            Emit(exitSync(saveRunStateCall(recordExit(S, packet.runId, packet.exitCode),
                                           env),
                          packet.runId),
                 "run-ended", packet.runId, exitReason(packet.exitCode), packet.exitCode),
            packet.runId, exitReason(packet.exitCode), env)

\* _executeSync from the await on, and then what the caller chained to it
executeSyncContinue(S, k, ok, env) ==
    IF ok /\ S.calls[k].analysis
    THEN executeSyncAnalysis(S, k)
    ELSE IF S.calls[k].after = "stopRun"
    THEN stopRunSynced(executeSyncSettled(S, k, ok), S.calls[k].runId, env)
    ELSE IF S.calls[k].after = "unregisterRun"
    THEN unregisterRun(executeSyncSettled(S, k, ok), S.calls[k].runId)
    ELSE executeSyncSettled(S, k, ok)

\* shutdown's loop over the runs that were running when it began; an error
\* of stopRun is caught and logged
RECURSIVE stopRunningRuns(_, _, _)
stopRunningRuns(S, ids, env) ==
    IF ids = {} THEN S
    ELSE LET r == CHOOSE x \in ids : \A y \in ids : x <= y IN
         stopRunningRuns([stopRun(S, r, env) EXCEPT !.err = ""], ids \ {r}, env)

\* serviceDependencyManager.cleanup(): stopServicesForRun for every run
\* that has services
RECURSIVE cleanup(_, _)
cleanup(S, ids) ==
    IF ids = {} THEN S
    ELSE LET r == CHOOSE x \in ids : TRUE IN
         cleanup(stopServicesForRun(S, r), ids \ {r})

\* shutdown once the scheduler and the sync manager have shut down
shutdownConnected(S, env) ==
    IF ~S.connected THEN S
    ELSE [saveRunState(
              cleanup(stopRunningRuns(S, {r \in DOMAIN S.runs : S.runs[r].status = "running"},
                                      env),
                      DOMAIN S.rs))
             EXCEPT !.connected = FALSE]

\* EvolutionManager.shutdown(): autoRunScheduler.shutdown() clears the
\* time-slice timers, then syncManager.shutdown(), then the runs
shutdown(S, env) == shutdownConnected(syncShutdown(clearAllTimers(S)), env)

\* handleProcessLog up to the throttled saveRunState
logProgress(S, runId, generation, save) ==
    IF save
    THEN saveRunState(Emit([S EXCEPT !.runs[runId].generation = generation],
                           "run-progress", runId, "", NoCode))
    ELSE Emit([S EXCEPT !.runs[runId].generation = generation],
              "run-progress", runId, "", NoCode)

\* handleProcessLog for a line that matches /\bgeneration\s+(\d+)\b/;
\* save: more than 30 s have passed since the last throttled save
handleProcessLog(S, name, generation, save) ==
    IF extractRunId(name) \notin DOMAIN S.runs THEN S
    ELSE Emit(logProgress(S, extractRunId(name), generation, save),
              "run-log", extractRunId(name), "", NoCode)

\* handleProcessMessage for an evolution-progress message whose progress
\* has a generation
handleProcessMessage(S, name, generation) ==
    IF extractRunId(name) \notin DOMAIN S.runs THEN S
    ELSE Emit([S EXCEPT !.runs[extractRunId(name)].generation = generation],
              "run-progress", extractRunId(name), "", NoCode)

---------------------------------------------------------------------------
(* Calls that overlap.  resumeRun and stopRun are async functions and the   *)
(* manager holds no lock: a call suspended at an await lets any other       *)
(* handler run before it continues.  S.calls holds the suspended calls.     *)

\* resumeRun at the end of step 1: it throws, or goes on to await the file
\* system and PM2
resumeRunAwait(S, runId) ==
    IF S.err \notin {"", NoEcosystem} THEN S
    ELSE suspend(S, [op |-> "resumeRun", runId |-> runId, err |-> S.err])

\* resumeRun up to the end of step 1 (the status check and the start of the
\* services)
resumeRunBegin(S, runId, env) ==
    IF runId \notin DOMAIN S.runs
    THEN [S EXCEPT !.err = "not found"]
    ELSE IF S.runs[runId].status = "running"
    THEN [S EXCEPT !.err = "already running"]
    ELSE resumeRunAwait(startServicesForRun(S, runId, S.runs[runId].templateName, env),
                        runId)

\* resumeRun from step 2 on
resumeRunContinue(S, k, env) ==
    resumeRunWithServices(continued(S, k), S.calls[k].runId, env)

\* stopRun up to the end of step 1
stopRunBegin(S, runId, env) ==
    IF runId \notin DOMAIN S.runs
    THEN [S EXCEPT !.err = "not found"]
    ELSE suspend(pm2StopDelete(S, EvoName(runId), env.code),
                 [op |-> "stopRun", runId |-> runId, err |-> ""])

\* stopRun from step 2 on
stopRunContinue(S, k, env) == stopRunStopped(continued(S, k), S.calls[k].runId, env)

\* onTimeSliceExpired up to the first await of the pauseRun it calls: the
\* timer is cleared, the run is checked and its compute process is stopped
onTimeSliceExpiredBegin(S, runId, env) ==
    IF runId \notin DOMAIN S.runs \/ S.runs[runId].status # "running"
    THEN scheduleNextRun(clearTimeSliceTimer(S, runId), env)
    ELSE suspend(pm2StopDelete(clearTimeSliceTimer(S, runId), EvoName(runId), env.code),
                 [op |-> "onTimeSliceExpired", runId |-> runId, err |-> ""])

\* onTimeSliceExpired from there on: the rest of pauseRunForScheduling, the
\* time-slice-expired event and scheduleNextRun
onTimeSliceExpiredContinue(S, k, env) ==
    onTimeSlicePaused(
        markPausedByScheduler(pauseRunStopped(continued(S, k), S.calls[k].runId),
                              S.calls[k].runId),
        S.calls[k].runId, env)

---------------------------------------------------------------------------
(* AutoRunScheduler: configuration calls *)

enable(S, env) ==
    IF S.config.enabled THEN S
    ELSE startScheduling(
            EmitSched([S EXCEPT !.config.enabled = TRUE, !.paused = FALSE, !.reason = ""],
                      "auto-run-status-change", 0, ""), env)

disable(S) ==
    IF ~S.config.enabled THEN S
    ELSE EmitSched(clearAllTimers([S EXCEPT !.config.enabled = FALSE]),
                   "auto-run-status-change", 0, "")

resumeScheduling(S, env) ==
    startScheduling(
        EmitSched([S EXCEPT !.paused = FALSE, !.reason = "",
                            !.config.consecutiveFailures = 0],
                  "auto-run-status-change", 0, ""), env)

clampConcurrent(count) ==
    IF count < MinConcurrent THEN MinConcurrent
    ELSE IF count > MaxConcurrent THEN MaxConcurrent ELSE count

\* the tail of setMaxConcurrentRuns and enableTemplate
scheduleIfActive(S, env) ==
    IF S.config.enabled /\ ~S.paused THEN scheduleNextRun(S, env) ELSE S

setMaxConcurrentRuns(S, count, env) ==
    scheduleIfActive(
        EmitSched([S EXCEPT !.config.maxConcurrentRuns = clampConcurrent(count)],
                  "auto-run-status-change", 0, ""), env)

setSchedulingMode(S, mode) ==
    EmitSched([S EXCEPT !.config.schedulingMode = mode], "auto-run-status-change", 0, "")

\* updateConfig({maxFailuresBeforePause})
updateConfig(S, maxFailures) ==
    EmitSched([S EXCEPT !.config.maxFailuresBeforePause =
                            IF maxFailures < MinFailuresBeforePause
                            THEN MinFailuresBeforePause ELSE maxFailures],
              "auto-run-status-change", 0, "")

templateIndex(tmpl, templateName) ==
    IF \E i \in 1..Len(tmpl) : tmpl[i].templateName = templateName
    THEN CHOOSE i \in 1..Len(tmpl) :
            /\ tmpl[i].templateName = templateName
            /\ \A j \in 1..(i - 1) : tmpl[j].templateName # templateName
    ELSE 0

\* enableTemplate: the entry of the template is updated, or pushed
upsertTemplate(S, i, templateName, priority) ==
    IF i # 0
    THEN [S EXCEPT !.tmpl[i].enabled = TRUE, !.tmpl[i].priority = priority]
    ELSE [S EXCEPT !.tmpl = Append(S.tmpl,
             [templateName |-> templateName, enabled |-> TRUE,
              priority |-> priority, currentRunId |-> 0, lastRunAt |-> 0,
              totalRunTimeMinutes |-> 0])]

\* enableTemplate(templateName, 'default', {priority})
enableTemplate(S, templateName, priority, env) ==
    IF ~TemplateExists(templateName)
    THEN [S EXCEPT !.err = "template not found"]
    ELSE scheduleIfActive(
            EmitSched(upsertTemplate(S, templateIndex(S.tmpl, templateName),
                                     templateName, priority),
                      "template-config-change", 0, templateName), env)

---------------------------------------------------------------------------
(* EvolutionManager: startup *)

\* init() up to the end of loadRunState, in a new manager process: the
\* maps in memory are empty, the PM2 bus is a new connection, and the state
\* file, the scheduler's config file and PM2's process table are as the
\* last process left them.  The scheduler is initialized after more awaits.
init(S) ==
    suspend(loadRunState([S EXCEPT !.runs = EmptyMap, !.rs = EmptyMap, !.ar = EmptyMap,
                                   !.used = {}, !.timers = EmptyMap, !.calls = EmptyMap,
                                   !.syncs = EmptyMap, !.bus = {}, !.paused = FALSE,
                                   !.reason = "", !.connected = TRUE]),
            [op |-> "init", runId |-> 0, err |-> ""])

\* AutoRunScheduler.initialize(), called at the end of init(); the templates
\* of the model all exist, so cleanupInvalidTemplates removes none
initialize(S, env) ==
    IF S.config.enabled /\ ~S.paused THEN resumeScheduling(S, env) ELSE S

initContinue(S, k, env) == initialize(continued(S, k), env)

---------------------------------------------------------------------------
(* The current state as a record, and the state after a handler *)

Cur ==
    [ar |-> allocatedRanges, used |-> usedPorts, rs |-> runServices, tmp |-> tempFiles,
     procs |-> procs, bus |-> bus, runs |-> runs, nextId |-> nextId, out |-> << >>,
     config |-> config, tmpl |-> enabledTemplates, paused |-> schedulerPaused,
     timers |-> timeSliceTimers,
     reason |-> pauseReason, calls |-> calls, syncs |-> activeSyncs, disk |-> runState, connected |-> isConnected,
     err |-> "", threw |-> FALSE, results |-> EmptyMap]

Becomes(S) ==
    /\ allocatedRanges' = S.ar
    /\ usedPorts' = S.used
    /\ runServices' = S.rs
    /\ tempFiles' = S.tmp
    /\ procs' = S.procs
    /\ bus' = S.bus
    /\ runs' = S.runs
    /\ nextId' = S.nextId
    /\ out' = S.out
    /\ config' = S.config
    /\ enabledTemplates' = S.tmpl
    /\ schedulerPaused' = S.paused
    /\ timeSliceTimers' = S.timers
    /\ pauseReason' = S.reason
    /\ calls' = S.calls
    /\ activeSyncs' = S.syncs
    /\ runState' = S.disk
    /\ isConnected' = S.connected

\* time slices that are added to a template's totalRunTimeMinutes
MaxSlices == 2

\* the state after a handler that leaves the generated ids within MaxRuns,
\* the failure counter within MaxFailures and the run times within MaxSlices
BecomesWithin(S) ==
    /\ S.nextId <= MaxRuns + 1
    /\ S.config.consecutiveFailures <= MaxFailures
    /\ \A i \in 1..Len(S.tmpl) : S.tmpl[i].totalRunTimeMinutes <= MaxSlices
    /\ Becomes(S)

---------------------------------------------------------------------------
(* The port manager on its own: any sequence of allocatePortRange and       *)
(* releasePortRange calls.                                                  *)

AllocRunIds == 1..MaxAllocRuns

NoManager ==
    /\ runServices = EmptyMap
    /\ tempFiles = {}
    /\ procs = EmptyMap
    /\ bus = {}
    /\ runs = EmptyMap
    /\ nextId = 1
    /\ out = << >>
    /\ calls = EmptyMap
    /\ activeSyncs = EmptyMap
    /\ runState = EmptyMap
    /\ isConnected = TRUE

InitScheduler ==
    /\ config = [enabled |-> FALSE, maxConcurrentRuns |-> 1,
                 schedulingMode |-> "round-robin", consecutiveFailures |-> 0,
                 pauseOnFailure |-> TRUE,
                 maxFailuresBeforePause |-> maxFailuresBeforePause]
    /\ enabledTemplates = << >>
    /\ schedulerPaused = FALSE
    /\ pauseReason = ""
    /\ timeSliceTimers = EmptyMap

Init ==
    /\ allocatedRanges = EmptyMap
    /\ usedPorts = NoPorts
    /\ NoManager
    /\ InitScheduler

AllocatePortRange(runId) ==
    LET res == allocatePortRange(allocatedRanges, usedPorts, runId) IN
    /\ ~res.threw
    /\ allocatedRanges' = res.ar
    /\ usedPorts' = res.used
    /\ UNCHANGED <<runServices, tempFiles, procs, bus, runs, nextId, out,
                   config, enabledTemplates, schedulerPaused, timeSliceTimers,
                   pauseReason, calls, activeSyncs, runState, isConnected>>

ReleasePortRange(runId) ==
    LET res == releasePortRange(allocatedRanges, usedPorts, runId) IN
    /\ runId \in DOMAIN allocatedRanges
    /\ allocatedRanges' = res.ar
    /\ usedPorts' = res.used
    /\ UNCHANGED <<runServices, tempFiles, procs, bus, runs, nextId, out,
                   config, enabledTemplates, schedulerPaused, timeSliceTimers,
                   pauseReason, calls, activeSyncs, runState, isConnected>>

NextPorts ==
    \/ \E runId \in AllocRunIds : AllocatePortRange(runId)
    \/ \E runId \in AllocRunIds : ReleasePortRange(runId)

SpecPorts == Init /\ [][NextPorts]_vars

PortsOf(a) == a.rangeStart .. a.rangeEnd

\* C1: no two live allocations (allocations of distinct run ids that have
\* not been released) share a port, after any sequence of allocatePortRange
\* and releasePortRange calls.
C1_NoOverlap ==
    \A r1 \in DOMAIN allocatedRanges : \A r2 \in DOMAIN allocatedRanges :
        r1 # r2 => PortsOf(allocatedRanges[r1]) \cap PortsOf(allocatedRanges[r2]) = {}

\* Two allocations are live and the lower interval is held by the run that
\* allocated later: it reuses an interval that was released.
C1_Witness ==
    \E r1 \in DOMAIN allocatedRanges : \E r2 \in DOMAIN allocatedRanges :
        /\ r1 < r2
        /\ allocatedRanges[r1].rangeStart = BasePort + 2 * portRangeSize
        /\ allocatedRanges[r2].rangeStart = BasePort
        /\ Cardinality(DOMAIN allocatedRanges) = 2


---------------------------------------------------------------------------
(* The service dependency manager on its own: any sequence of               *)
(* startServicesForRun and stopServicesForRun calls.                        *)

Faults == {"none", "tmpwrite", "config", "spawn"}
AppSet == {AllApps[i] : i \in 1..Len(AllApps)}
SvcOutcomes == [AppSet -> StartOutcomes]
AllOnline == [a \in AppSet |-> "online"]

Env(fault, svc, code) ==
    [fault |-> fault, svc |-> svc, code |-> code, pick |-> 0, sync |-> FALSE,
     async |-> FALSE, deferWrite |-> FALSE]

ServiceRunIds == 1..MaxServiceRuns
ServiceTemplates == {"A", "N"}
ServiceFaults == {"none", "tmpwrite"}

StartServicesForRun(runId, templateName, fault, svc) ==
    /\ runId \in ServiceRunIds
    /\ Becomes(startServicesForRun(Cur, runId, templateName, Env(fault, svc, 0)))

StopServicesForRun(runId) ==
    /\ runId \in ServiceRunIds
    /\ Becomes(stopServicesForRun(Cur, runId))

NextServices ==
    \/ \E r \in ServiceRunIds, t \in ServiceTemplates, f \in ServiceFaults,
          svc \in SvcOutcomes : StartServicesForRun(r, t, f, svc)
    \/ \E r \in ServiceRunIds : StopServicesForRun(r)

SpecServices == Init /\ [][NextServices]_vars

\* the error startServicesForRun(runId, templateName) raises, "" for none
ErrorOf(runId, templateName, fault, svc) ==
    startServicesForRun(Cur, runId, templateName, Env(fault, svc, 0)).err

\* the processes of the services of run r that are alive
ServicesUp(r) == {n \in DOMAIN procs : n.sep = "_" /\ n.id = r /\ procs[n] = "online"}

\* C7: if startServicesForRun fails after the port interval was allocated
\* (template missing, temporary config write failure, readiness timeout),
\* then when it returns the run's port allocation is released, every
\* service it started is stopped and the temporary ecosystem file is removed.
C7_FailureUnwinds ==
    [][\A r \in ServiceRunIds, t \in ServiceTemplates, f \in ServiceFaults,
          svc \in SvcOutcomes :
          (/\ StartServicesForRun(r, t, f, svc)
           /\ ErrorOf(r, t, f, svc) \notin {"", "Unable to allocate port range"})
          => (/\ r \notin DOMAIN allocatedRanges'
              /\ ServicesUp(r)' = {}
              /\ r \notin tempFiles')]_vars

\* C9: startServicesForRun returns successfully only if every service of
\* the run's ecosystem was started and is online; if a service fails to
\* start, the call fails and no service of the run stays up.
C9_AllOrNothing ==
    [][\A r \in ServiceRunIds, t \in ServiceTemplates, f \in ServiceFaults,
          svc \in SvcOutcomes :
          StartServicesForRun(r, t, f, svc)
          => /\ ErrorOf(r, t, f, svc) = ""
                  => \A i \in 1..Len(EcosystemApps(t)) :
                        RunAppName(EcosystemApps(t)[i], r) \in ServicesUp(r)'
             /\ (ErrorOf(r, t, f, svc) # "" /\ HasEcosystem(t) /\ f = "none")
                  => ServicesUp(r)' = {}]_vars

---------------------------------------------------------------------------
(* The run manager: the calls of the control surface (startRun, stopRun,    *)
(* resumeRun, getAllRuns), pauseRun, and the PM2 events, on runs that are   *)
(* not auto-scheduled.                                                      *)

UserTemplates == {"A", "N", "X"}

\* resumeRun starts the services through the same startServicesForRun as
\* startRun, whose faults StartRun draws; a resume draws the faults of its
\* own steps
ResumeFaults == {"none", "spawn"}

StartRun(templateName, fault, svc) ==
    /\ nextId <= MaxRuns
    /\ Becomes(startRun(Cur, templateName, FALSE, Env(fault, svc, 0)))

\* a call or a process exit happens while fewer than MaxPending exit packets
\* wait on the bus
BusOpen == Cardinality(bus) < MaxPending

StopRun(runId, code) ==
    /\ BusOpen
    /\ runId \in DOMAIN runs
    /\ Becomes(stopRun(Cur, runId, Env("none", AllOnline, code)))

PauseRun(runId, code) ==
    /\ BusOpen
    /\ runId \in DOMAIN runs
    /\ runs[runId].status = "running"
    /\ Becomes(pauseRun(Cur, runId, Env("none", AllOnline, code)))

ResumeRun(runId, fault, svc, code) ==
    /\ BusOpen
    /\ runId \in DOMAIN runs
    /\ runs[runId].status # "running"
    /\ Becomes(resumeRun(Cur, runId, Env(fault, svc, code)))

GetAllRuns ==
    /\ DOMAIN runs # {}
    /\ Becomes(getAllRuns(Cur))

\* the compute process of a run exits on its own: PM2 does not restart it
\* (autorestart: false) and sends the exit packet
ComputeExits(runId, code, pm2Status) ==
    /\ BusOpen
    /\ EvoName(runId) \in DOMAIN procs
    /\ procs[EvoName(runId)] = "online"
    /\ code = 0 => pm2Status = "stopped"
    /\ Becomes([Cur EXCEPT !.procs = Put(procs, EvoName(runId), pm2Status),
                           !.bus = bus \cup {[runId |-> runId, exitCode |-> code]}])

HandleProcessEvent(packet) ==
    /\ packet \in bus
    /\ Becomes(handleProcessEvent([Cur EXCEPT !.bus = bus \ {packet}], packet,
                                  Env("none", AllOnline, 0)))

RunIds == 1..MaxRuns

Next ==
    \/ \E t \in UserTemplates, f \in Faults, svc \in SvcOutcomes : StartRun(t, f, svc)
    \/ \E r \in RunIds, c \in ExitCodes : StopRun(r, c)
    \/ \E r \in RunIds, c \in ExitCodes : PauseRun(r, c)
    \/ \E r \in RunIds, f \in ResumeFaults, c \in ExitCodes : ResumeRun(r, f, AllOnline, c)
    \/ GetAllRuns
    \/ \E r \in RunIds, c \in ExitCodes, st \in {"stopped", "errored"} : ComputeExits(r, c, st)
    \/ \E p \in bus : HandleProcessEvent(p)

Spec == Init /\ [][Next]_vars

\* the status of a run id, "absent" before the run is stored
StatusOf(r) == IF r \in DOMAIN runs THEN runs[r].status ELSE "absent"

\* the processes carrying the id of run r that are alive
AliveOf(r) == {n \in DOMAIN procs : extractRunId(n) = r /\ procs[n] = "online"}

\* the service processes of run r that are alive
AliveServicesOf(r) == {n \in AliveOf(r) : n.sep = "_"}

\* the legal graph; a start runs absent -> starting -> running inside one
\* call, so absent -> running is one step of it
LegalEdges ==
    {<<"absent", "starting">>, <<"starting", "running">>, <<"starting", "absent">>,
     <<"absent", "running">>,
     <<"running", "stopped">>, <<"running", "terminated">>, <<"running", "failed">>,
     <<"running", "paused">>,
     <<"paused", "running">>, <<"paused", "stopped">>}

\* C2: every change of a run's status, by any operation, follows the legal
\* graph: absent -> starting -> {running, absent}; running -> {stopped,
\* terminated, failed, paused}; paused -> {running, stopped}; stopped,
\* terminated and failed are terminal.
C2_LegalGraph ==
    [][\A r \in RunIds :
          StatusOf(r)' # StatusOf(r) => <<StatusOf(r), StatusOf(r)'>> \in LegalEdges]_vars

\* C3: for every run, no process carrying its id is alive when its status is
\* stopped, terminated, failed or paused, and at least one is when it is
\* running or starting (outside the window in which an exit packet of the
\* run waits on the bus).
C3_AliveMatchesStatus ==
    \A r \in DOMAIN runs :
        (\A p \in bus : p.runId # r) =>
            /\ runs[r].status \in {"stopped", "terminated", "failed", "paused"}
                  => AliveOf(r) = {}
            /\ runs[r].status \in {"running", "starting"} => AliveOf(r) # {}

\* C6: when the exit of a running run's compute process, which exited on its
\* own, is handled, the run's services are down and its port allocation is
\* released.
C6_ExitTearsDown ==
    [][\A p \in bus :
          (/\ HandleProcessEvent(p)
           /\ p.runId \in DOMAIN runs
           /\ runs[p.runId].status = "running"
           /\ EvoName(p.runId) \in DOMAIN procs
           /\ procs[EvoName(p.runId)] # "online")
          => (/\ AliveServicesOf(p.runId)' = {}
              /\ p.runId \notin DOMAIN allocatedRanges')]_vars

\* C8: when startRun fails, no run record exists for the generated id, no
\* process carrying that id is alive, and no port allocation is held for it.
C8_FailedStartLeavesNothing ==
    [][(nextId' = nextId + 1 /\ nextId \notin DOMAIN runs')
          => (/\ AliveOf(nextId)' = {}
              /\ nextId \notin DOMAIN allocatedRanges')]_vars

\* the run-ended event of the exit handler
RunEnded(runId, exitCode) ==
    [src |-> "socket", type |-> "run-ended", runId |-> runId,
     reason |-> IF exitCode = 0 THEN "terminated" ELSE "failed", exitCode |-> exitCode]

\* C10: for an exit event of a run's compute process: if the run is paused
\* the event changes nothing and emits nothing; otherwise exit code 0 sets
\* the status to terminated, any other code sets it to failed and records
\* the code, and run-ended with the same reason and exit code is emitted.
C10_ExitClassified ==
    [][\A p \in bus :
          (HandleProcessEvent(p) /\ p.runId \in DOMAIN runs)
          => IF runs[p.runId].status = "paused"
             THEN /\ UNCHANGED <<allocatedRanges, usedPorts, runServices, tempFiles, procs,
                                  runs, nextId, config, enabledTemplates, schedulerPaused,
                                  timeSliceTimers, pauseReason, calls, activeSyncs,
                                  runState, isConnected>>
                  /\ out' = << >>
             ELSE /\ runs'[p.runId].status =
                        (IF p.exitCode = 0 THEN "terminated" ELSE "failed")
                  /\ p.exitCode # 0 => runs'[p.runId].exitCode = p.exitCode
                  /\ out' = <<RunEnded(p.runId, p.exitCode)>>]_vars

C10_Witness ==
    \E r \in DOMAIN runs :
        /\ runs[r].status = "failed"
        /\ runs[r].exitCode = 1
        /\ out = <<RunEnded(r, 1)>>

---------------------------------------------------------------------------
(* The scheduler with the run manager: the scheduler's control calls, the   *)
(* time-slice timers, and the PM2 events and refreshes of the runs it       *)
(* starts.  Services start online and no step of a start or resume fails.   *)

SchedTemplates == {"A", "B"}
\* the priority each template is enabled with
TemplatePriority(templateName) == IF templateName = "A" THEN 1 ELSE 2
Counts == {1, 2}
Modes == {"priority", "round-robin"}
\* env.pick: the template index a round-robin sort may put first, 0 for the
\* first in array order
Picks == {0, 2}

SchedEnv(code, pick) ==
    [fault |-> "none", svc |-> AllOnline, code |-> code, pick |-> pick, sync |-> FALSE,
     async |-> FALSE, deferWrite |-> FALSE]

\* the sort of selectNextTemplate has a choice only among two templates that
\* never ran, in round-robin mode
PickAllowed(pick) ==
    \/ pick = 0
    \/ /\ config.schedulingMode = "round-robin"
       /\ pick <= Len(enabledTemplates)
       /\ Cardinality({i \in 1..Len(enabledTemplates) : enabledTemplates[i].lastRunAt = 0}) >= 2

Enable(pick) ==
    /\ ~config.enabled
    /\ PickAllowed(pick)
    /\ BecomesWithin(enable(Cur, SchedEnv(0, pick)))

Disable ==
    /\ config.enabled
    /\ Becomes(disable(Cur))

PauseScheduling ==
    /\ ~schedulerPaused
    /\ Becomes(pause(Cur, "manual"))

ResumeScheduling(pick) ==
    /\ PickAllowed(pick)
    /\ BecomesWithin(resumeScheduling(Cur, SchedEnv(0, pick)))

SetMaxConcurrentRuns(count, pick) ==
    /\ PickAllowed(pick)
    /\ BecomesWithin(setMaxConcurrentRuns(Cur, count, SchedEnv(0, pick)))

SetSchedulingMode(mode) ==
    /\ mode \in Modes
    /\ Becomes(setSchedulingMode(Cur, mode))

EnableTemplate(templateName, pick) ==
    /\ pick = 0 \/ config.schedulingMode = "round-robin"
    /\ BecomesWithin(enableTemplate(Cur, templateName, TemplatePriority(templateName),
                                    SchedEnv(0, pick)))

\* the setTimeout callback of a run's time slice fires
TimeSliceExpired(runId, code, pick) ==
    /\ BusOpen
    /\ PickAllowed(pick)
    /\ runId \in DOMAIN timeSliceTimers
    /\ BecomesWithin(onTimeSliceExpired(Cur, runId, SchedEnv(code, pick)))

SchedHandleProcessEvent(packet, pick) ==
    /\ packet \in bus
    /\ PickAllowed(pick)
    /\ BecomesWithin(handleProcessEvent([Cur EXCEPT !.bus = bus \ {packet}], packet,
                                        SchedEnv(0, pick)))

NextSched ==
    \/ \E k \in Picks : Enable(k)
    \/ Disable
    \/ PauseScheduling
    \/ \E k \in Picks : ResumeScheduling(k)
    \/ \E n \in Counts, k \in Picks : SetMaxConcurrentRuns(n, k)
    \/ \E m \in Modes : SetSchedulingMode(m)
    \/ \E t \in SchedTemplates, k \in Picks : EnableTemplate(t, k)
    \/ \E r \in RunIds, c \in ExitCodes, k \in Picks : TimeSliceExpired(r, c, k)
    \/ \E r \in RunIds, c \in ExitCodes, st \in {"stopped", "errored"} : ComputeExits(r, c, st)
    \/ \E p \in bus, k \in Picks : SchedHandleProcessEvent(p, k)
    \/ GetAllRuns

SpecSched == Init /\ [][NextSched]_vars

\* C4: the number of auto-scheduled runs with status running is at most
\* maxConcurrentRuns in every reachable state.
C4_AtMostMaxConcurrent ==
    Cardinality(activeScheduledRuns(Cur)) <= config.maxConcurrentRuns

\* templates A (priority 1) and B (priority 2) enabled, maxConcurrent = 1,
\* mode priority, scheduler enabled and not paused
TwoTemplateSetting ==
    /\ config.enabled /\ ~schedulerPaused
    /\ config.maxConcurrentRuns = 1
    /\ config.schedulingMode = "priority"
    /\ Len(enabledTemplates) = 2
    /\ \A i \in 1..2 : /\ enabledTemplates[i].enabled
                        /\ enabledTemplates[i].templateName \in SchedTemplates
                        /\ enabledTemplates[i].priority
                              = TemplatePriority(enabledTemplates[i].templateName)
    /\ enabledTemplates[1].templateName # enabledTemplates[2].templateName

\* C5: with A (priority 1) and B (priority 2), maxConcurrent = 1 and mode
\* priority, the expiries alternate the scheduled template: at the expiry of
\* B's time slice, with A's run paused by the scheduler, B's run is paused
\* and A's run is resumed.
C5_ExpiryAlternates ==
    [][\A b \in RunIds, a \in RunIds, c \in ExitCodes :
          (/\ TwoTemplateSetting
           /\ a \in DOMAIN runs /\ b \in DOMAIN runs
           /\ runs[b].templateName = "B" /\ runs[b].status = "running"
           /\ runs[a].templateName = "A" /\ runs[a].status = "paused"
           /\ runs[a].pausedByScheduler
           /\ TimeSliceExpired(b, c, 0))
          => (runs'[b].status = "paused" /\ runs'[a].status = "running")]_vars

---------------------------------------------------------------------------
(* The run manager with overlapping calls: resumeRun and stopRun calls on   *)
(* the same run may be suspended at an await while other calls, refreshes   *)
(* and PM2 events are handled.                                              *)

\* calls that may be suspended at the same time
MaxCalls == 2

CallsOpen == Cardinality(DOMAIN calls) < MaxCalls

ConcStartRun ==
    /\ nextId <= MaxRuns
    /\ Becomes(startRun(Cur, "A", FALSE, Env("none", AllOnline, 0)))

ResumeRunBegin(runId) ==
    /\ CallsOpen
    /\ runId \in DOMAIN runs
    /\ Becomes(resumeRunBegin(Cur, runId, Env("none", AllOnline, 0)))

ResumeRunContinue(k, code) ==
    /\ BusOpen
    /\ k \in DOMAIN calls
    /\ calls[k].op = "resumeRun"
    /\ Becomes(resumeRunContinue(Cur, k, Env("none", AllOnline, code)))

StopRunBegin(runId, code) ==
    /\ CallsOpen
    /\ BusOpen
    /\ runId \in DOMAIN runs
    /\ Becomes(stopRunBegin(Cur, runId, Env("none", AllOnline, code)))

StopRunContinue(k) ==
    /\ k \in DOMAIN calls
    /\ calls[k].op = "stopRun"
    /\ Becomes(stopRunContinue(Cur, k, Env("none", AllOnline, 0)))

CallIds == 1..MaxCalls

NextConc ==
    \/ ConcStartRun
    \/ \E r \in RunIds : ResumeRunBegin(r)
    \/ \E k \in CallIds, c \in ExitCodes : ResumeRunContinue(k, c)
    \/ \E r \in RunIds, c \in ExitCodes : StopRunBegin(r, c)
    \/ \E k \in CallIds : StopRunContinue(k)
    \/ \E r \in RunIds, c \in ExitCodes : PauseRun(r, c)
    \/ GetAllRuns
    \/ \E r \in RunIds, c \in ExitCodes, st \in {"stopped", "errored"} : ComputeExits(r, c, st)
    \/ \E p \in bus : HandleProcessEvent(p)

SpecConc == Init /\ [][NextConc]_vars

\* the compute processes of run r that PM2 runs
ComputeOf(r) == {n \in DOMAIN procs : n = EvoName(r) /\ procs[n] = "online"}

\* C11: while a run's status is running, exactly one compute process
\* kromosynth-evolution-<runId> exists (outside the window in which the exit
\* packet of the run's compute process waits on the bus), also when calls on
\* the same run overlap.
C11_OneComputeWhileRunning ==
    \A r \in DOMAIN runs :
        (runs[r].status = "running" /\ \A p \in bus : p.runId # r)
            => Cardinality(ComputeOf(r)) = 1

---------------------------------------------------------------------------
(* The scheduler with an expiry handler that may be suspended: the timer    *)
(* callback onTimeSliceExpired awaits pauseRun, and the control calls and   *)
(* PM2 events are handled meanwhile.                                        *)

TimeSliceExpiredBegin(runId, code) ==
    /\ BusOpen
    /\ CallsOpen
    /\ runId \in DOMAIN timeSliceTimers
    /\ BecomesWithin(onTimeSliceExpiredBegin(Cur, runId, SchedEnv(code, 0)))

TimeSliceExpiredContinue(k) ==
    /\ k \in DOMAIN calls
    /\ calls[k].op = "onTimeSliceExpired"
    /\ BecomesWithin(onTimeSliceExpiredContinue(Cur, k, SchedEnv(0, 0)))

NextExpiry ==
    \/ Enable(0)
    \/ Disable
    \/ \E t \in SchedTemplates : EnableTemplate(t, 0)
    \/ \E r \in RunIds, c \in ExitCodes : TimeSliceExpiredBegin(r, c)
    \/ \E k \in CallIds : TimeSliceExpiredContinue(k)
    \/ \E p \in bus : SchedHandleProcessEvent(p, 0)

SpecExpiry == Init /\ [][NextExpiry]_vars

\* the time-slice-expired events among the events of the last handler
ExpiredEvents == {i \in 1..Len(out) : out[i].type = "time-slice-expired"}

\* C12: after the scheduler's disable() has been called (and until it is
\* enabled again), no time-slice-expired event is emitted for any run, also
\* when an expiry handler was in progress at the time of the call.
C12_NoExpiryAfterDisable == ~config.enabled => ExpiredEvents = {}

---------------------------------------------------------------------------
(* The scheduler's failure back-off: runs that fail, the configured limit   *)
(* of consecutive failures, and the calls that switch the scheduler on and  *)
(* off.                                                                     *)

\* the limits updateConfig is called with
FailureLimits == {1, 2}

UpdateConfig(maxFailures) ==
    /\ maxFailures # config.maxFailuresBeforePause
    /\ Becomes(updateConfig(Cur, maxFailures))

NextBackoff ==
    \/ Enable(0)
    \/ Disable
    \/ ResumeScheduling(0)
    \/ \E n \in FailureLimits : UpdateConfig(n)
    \/ \E t \in SchedTemplates : EnableTemplate(t, 0)
    \/ \E r \in RunIds, c \in ExitCodes : TimeSliceExpired(r, c, 0)
    \/ \E r \in RunIds, c \in ExitCodes, st \in {"stopped", "errored"} : ComputeExits(r, c, st)
    \/ \E p \in bus : SchedHandleProcessEvent(p, 0)

SpecBackoff == Init /\ [][NextBackoff]_vars

\* the events of the last handler that tell of a run the scheduler started
\* or resumed
ScheduledEvents == {i \in 1..Len(out) : out[i].type = "time-slice-started"}

\* the failure of an auto-scheduled run that brings consecutiveFailures to
\* the limit is being handled
LimitReached(p) ==
    /\ SchedHandleProcessEvent(p, 0)
    /\ p.runId \in DOMAIN runs
    /\ runs[p.runId].autoScheduled
    /\ runs[p.runId].status # "paused"
    /\ p.exitCode # 0
    /\ config.pauseOnFailure
    /\ config.consecutiveFailures + 1 >= config.maxFailuresBeforePause

\* C13: with pauseOnFailure set, once consecutiveFailures reaches
\* maxFailuresBeforePause the scheduler is paused with a recorded reason and
\* all time-slice timers cleared, and while it is paused for failures it
\* starts or resumes no run in any step other than resumeScheduling().
C13_BackoffHolds ==
    [][/\ \A p \in bus :
             LimitReached(p) => /\ schedulerPaused'
                                /\ pauseReason' = TooManyFailures
                                /\ timeSliceTimers' = EmptyMap
       /\ (schedulerPaused /\ pauseReason = TooManyFailures /\ ~ResumeScheduling(0))
             => ScheduledEvents' = {}]_vars

---------------------------------------------------------------------------
(* The run manager with a sync manager: every run is registered for sync    *)
(* when it starts; the periodic timer ticks, calls and PM2 events are       *)
(* handled while sync cycles are in flight; the manager shuts down.         *)

SyncEnv(code) ==
    [fault |-> "none", svc |-> AllOnline, code |-> code, pick |-> 0, sync |-> TRUE,
     databases |-> FALSE, analysis |-> TRUE, async |-> FALSE, deferWrite |-> FALSE]

SyncStartRun ==
    /\ isConnected
    /\ nextId <= MaxRuns
    /\ Becomes(startRun(Cur, "A", FALSE, SyncEnv(0)))

\* entry.consecutiveErrors of a run, 0 without an entry
ErrorsOf(runId) ==
    IF runId \in DOMAIN activeSyncs THEN activeSyncs[runId].consecutiveErrors ELSE 0

\* registerRun continues after its awaits
SyncRegistered(k) ==
    /\ isConnected
    /\ k \in DOMAIN calls
    /\ calls[k].op = "register"
    /\ Becomes(registerRunContinue(Cur, k))

\* the setInterval callback of a registered run
SyncTick(runId) ==
    /\ isConnected
    /\ runId \in DOMAIN activeSyncs
    /\ activeSyncs[runId].interval
    /\ Becomes(executeSync(Cur, runId, "none"))

\* the setTimeout callback of a registered run, 30 s after _startPeriodicSync
SyncInitial(runId) ==
    /\ isConnected
    /\ runId \in DOMAIN activeSyncs
    /\ activeSyncs[runId].initial
    /\ Becomes(initialSync(Cur, runId))

\* a step of a sync cycle in flight returns or throws
SyncSettles(k, ok) ==
    /\ isConnected
    /\ k \in DOMAIN calls
    /\ calls[k].op = "sync"
    /\ ~ok => ErrorsOf(calls[k].runId) < MaxSyncErrors
    /\ Becomes(executeSyncContinue(Cur, k, ok, SyncEnv(0)))

SyncStopRun(runId, code) ==
    /\ isConnected
    /\ BusOpen
    /\ runId \in DOMAIN runs
    /\ Becomes(stopRun(Cur, runId, SyncEnv(code)))

SyncPauseRun(runId, code) ==
    /\ isConnected
    /\ BusOpen
    /\ runId \in DOMAIN runs
    /\ runs[runId].status = "running"
    /\ Becomes(pauseRun(Cur, runId, SyncEnv(code)))

SyncComputeExits(runId, code) ==
    /\ isConnected
    /\ ComputeExits(runId, code, IF code = 0 THEN "stopped" ELSE "errored")

SyncHandleProcessEvent(packet) ==
    /\ isConnected
    /\ packet \in bus
    /\ Becomes(handleProcessEvent([Cur EXCEPT !.bus = bus \ {packet}], packet, SyncEnv(0)))

\* SIGINT or SIGTERM: the process exits when shutdown() has returned
Shutdown(code) ==
    /\ isConnected
    /\ Becomes(shutdown(Cur, SyncEnv(code)))

\* a registerRun and a cycle per run may be suspended at a time
SyncCallIds == 1..(2 * MaxRuns)

NextSync ==
    \/ SyncStartRun
    \/ \E k \in SyncCallIds : SyncRegistered(k)
    \/ \E r \in RunIds : SyncTick(r)
    \/ \E r \in RunIds : SyncInitial(r)
    \/ \E k \in SyncCallIds, ok \in BOOLEAN : SyncSettles(k, ok)
    \/ \E r \in RunIds, c \in ExitCodes : SyncStopRun(r, c)
    \/ \E r \in RunIds, c \in ExitCodes : SyncPauseRun(r, c)
    \/ \E r \in RunIds, c \in ExitCodes : SyncComputeExits(r, c)
    \/ \E p \in bus : SyncHandleProcessEvent(p)
    \/ \E c \in ExitCodes : Shutdown(c)

SpecSync == Init /\ [][NextSync]_vars

\* the sync cycles of run r that are in flight
CyclesOf(r) == {k \in DOMAIN calls : calls[k].op = "sync" /\ calls[k].runId = r}

\* C14: for any run, two sync cycles never execute at the same time: a
\* cycle requested (by the periodic timer, the initial delayed tick or
\* triggerSync) while another cycle of the same run is in progress does not
\* run concurrently with it.
C14_OneCyclePerRun == \A r \in RunIds : Cardinality(CyclesOf(r)) <= 1

\* a cycle of a registered run is in flight, started by a triggerSync
\* whose caller chained the unregistration to it, while the entry's flag
\* is set: a tick for the run is enabled and starts no second cycle
C14_CycleInFlight ==
    \E r \in DOMAIN activeSyncs :
        /\ activeSyncs[r].syncing
        /\ \E k \in CyclesOf(r) : calls[k].after = "unregisterRun"

\* the events of the given type about run r that the last handler emitted
EventsOf(type, r) == {i \in 1..Len(out) : out[i].type = type /\ out[i].runId = r}

\* the sync cycles of run r in flight that an exit handler started
ExitCyclesOf(r) == {k \in CyclesOf(r) : calls[k].after = "unregisterRun"}

\* C15: for every run that ends by compute exit, the run-ended event is
\* emitted only after the final sync attempt triggered for that exit has
\* completed (succeeded or failed).
C15_RunEndedAfterFinalSync ==
    [][\A p \in bus :
          (SyncHandleProcessEvent(p) /\ EventsOf("run-ended", p.runId)' # {})
          => ExitCyclesOf(p.runId)' = {}]_vars

\* C16: on shutdown every run with status running is stopped via stopRun
\* and a final sync cycle is executed for each such run that was registered
\* for sync, before shutdown completes.
C16_ShutdownStopsAndSyncs ==
    [][\A c \in ExitCodes :
          Shutdown(c)
          => \A r \in DOMAIN runs :
                runs[r].status = "running"
                => /\ runs'[r].status = "stopped"
                   /\ r \in DOMAIN activeSyncs => EventsOf("sync-started", r)' # {}]_vars

---------------------------------------------------------------------------
(* Restarts: the manager process ends (with or without shutdown) and a new  *)
(* one starts on the state file, while PM2 keeps the processes.             *)

\* lost: the PM2 daemon was killed or the machine rebooted meanwhile, and no
\* process is left
Restart(lost) ==
    /\ Becomes(init(IF lost THEN [Cur EXCEPT !.procs = EmptyMap] ELSE Cur))

InitContinue(k, pick) ==
    /\ k \in DOMAIN calls
    /\ calls[k].op = "init"
    /\ PickAllowed(pick)
    /\ BecomesWithin(initContinue(Cur, k, SchedEnv(0, pick)))

\* a call of the control surface is served once init() has returned
Initialized == \A k \in DOMAIN calls : calls[k].op # "init"

\* a user resumes a paused run
PersistResumeRun(runId) ==
    /\ Initialized
    /\ runId \in DOMAIN runs
    /\ runs[runId].status = "paused"
    /\ ResumeRun(runId, "none", AllOnline, 0)

PersistEnable ==
    /\ Initialized
    /\ Enable(0)

PersistEnableTemplate(templateName) ==
    /\ Initialized
    /\ EnableTemplate(templateName, 0)

NextPersist ==
    \/ PersistEnable
    \/ Disable
    \/ \E t \in SchedTemplates : PersistEnableTemplate(t)
    \/ \E r \in RunIds, c \in ExitCodes : TimeSliceExpired(r, c, 0)
    \/ \E r \in RunIds : PersistResumeRun(r)
    \/ \E r \in RunIds, c \in ExitCodes, st \in {"stopped", "errored"} : ComputeExits(r, c, st)
    \/ \E p \in bus : SchedHandleProcessEvent(p, 0)
    \/ \E lost \in BOOLEAN : Restart(lost)
    \/ \E k \in CallIds : InitContinue(k, 0)

SpecPersist == Init /\ [][NextPersist]_vars

\* the compute process of run r is alive
ComputeAlive(r) == EvoName(r) \in DOMAIN procs /\ procs[EvoName(r)] = "online"

\* C17: startup reconciliation (loadRunState): each stored run whose compute
\* process is alive is restored as running (or paused if it was marked
\* paused-by-scheduler); each stored run with status running whose compute
\* process is gone becomes stopped with stoppedAt set to the reconciliation
\* time; every other stored status is kept.
C17_Reconciled ==
    [][\A lost \in BOOLEAN :
          Restart(lost)
          => \A r \in DOMAIN runState :
                /\ ComputeAlive(r)'
                     => runs'[r].status = IF runState[r].pausedByScheduler
                                          THEN "paused" ELSE "running"
                /\ (~ComputeAlive(r)' /\ runState[r].status = "running")
                     => /\ runs'[r].status = "stopped"
                        /\ runs'[r].stoppedAt = "loadRunState"
                /\ (~ComputeAlive(r)' /\ runState[r].status # "running")
                     => runs'[r].status = runState[r].status]_vars

\* C18: persisting the run map with saveRunState and reloading it with
\* loadRunState, with the process table unchanged in between, reproduces
\* every field of every run record except the live pid, cpu and memory
\* values.
C18_RoundTrip ==
    [][(Restart(FALSE) /\ runState = saveRunState(Cur).disk) => runs' = runs]_vars

---------------------------------------------------------------------------
(* Progress: the log lines and the messages of a run's processes *)

\* the largest generation number a log line or a message carries
MaxGeneration == 2

Generations == 0..MaxGeneration

\* log:out or log:err of a process that runs, with a generation number
HandleProcessLog(name, generation, save) ==
    /\ name \in DOMAIN procs
    /\ procs[name] = "online"
    /\ Becomes(handleProcessLog(Cur, name, generation, save))

\* process:msg of a process that runs, of type evolution-progress
HandleProcessMessage(name, generation) ==
    /\ name \in DOMAIN procs
    /\ procs[name] = "online"
    /\ Becomes(handleProcessMessage(Cur, name, generation))

ProcNames == {RunProcSeq(r)[i] : r \in RunIds, i \in 1..(Len(AllApps) + 1)}

NextProgress ==
    \/ ConcStartRun
    \/ \E n \in ProcNames, g \in Generations, save \in BOOLEAN : HandleProcessLog(n, g, save)
    \/ \E n \in ProcNames, g \in Generations : HandleProcessMessage(n, g)
    \/ \E r \in RunIds, c \in ExitCodes : PauseRun(r, c)
    \/ \E r \in RunIds, c \in ExitCodes, st \in {"stopped", "errored"} : ComputeExits(r, c, st)
    \/ \E p \in bus : HandleProcessEvent(p)

SpecProgress == Init /\ [][NextProgress]_vars

\* C19: while a run stays in status running, progress.generation never
\* decreases, for any sequence of log lines and process messages attributed
\* to that run.
C19_GenerationMonotonic ==
    [][\A r \in DOMAIN runs :
          (runs[r].status = "running" /\ runs'[r].status = "running")
          => runs'[r].generation >= runs[r].generation]_vars

---------------------------------------------------------------------------
(* Process names: runs of a template whose ecosystem has an app that        *)
(* mapAppToServiceType does not know                                        *)

NamingTemplates == {"A", "Q"}
NamingApps == {EcosystemApps(t)[i] : t \in NamingTemplates, i \in 1..2}
NamingOutcomes == [NamingApps -> StartOutcomes]

NamingEnv(svc, code) ==
    [fault |-> "none", svc |-> svc, code |-> code, pick |-> 0, sync |-> FALSE,
     async |-> FALSE, deferWrite |-> FALSE]

NamingStartRun(templateName, svc) ==
    /\ nextId <= MaxRuns
    /\ Becomes(startRun(Cur, templateName, FALSE, NamingEnv(svc, 0)))

NamingStopRun(runId, code) ==
    /\ BusOpen
    /\ runId \in DOMAIN runs
    /\ Becomes(stopRun(Cur, runId, NamingEnv([a \in NamingApps |-> "online"], code)))

NamingResumeRun(runId, svc) ==
    /\ BusOpen
    /\ runId \in DOMAIN runs
    /\ runs[runId].status # "running"
    /\ Becomes(resumeRun(Cur, runId, NamingEnv(svc, 0)))

NextNaming ==
    \/ \E t \in NamingTemplates, svc \in NamingOutcomes : NamingStartRun(t, svc)
    \/ \E r \in RunIds, c \in ExitCodes : NamingStopRun(r, c)
    \/ \E r \in RunIds, svc \in NamingOutcomes : NamingResumeRun(r, svc)
    \/ \E r \in RunIds, c \in ExitCodes : PauseRun(r, c)
    \/ \E p \in bus : HandleProcessEvent(p)

SpecNaming == Init /\ [][NextNaming]_vars

\* C20: every service process started for run r is named
\* <logical-name>_<r> and the compute process is named
\* kromosynth-evolution-<r>; no process is started for a run under a name
\* that lacks the run id.
C20_NamesCarryRunId ==
    \A n \in DOMAIN procs :
        /\ n.id # 0
        /\ n = EvoName(n.id) \/ n.sep = "_"

---------------------------------------------------------------------------
(* The port manager on a nearly full grid: HeldRuns runs allocate one after *)
(* the other and keep their intervals, then the runs of AllocRunIds         *)
(* allocate and release.  out holds what the last call returned or threw.   *)

\* runs that allocate first and never release
HeldRuns == 13

HeldIds == {100 + i : i \in 1..HeldRuns}

\* the intervals of the grid that findAvailableRange tries
GridIntervals == 0..((MaxCandidate - BasePort) \div portRangeSize)

IntervalOf(k) ==
    [rangeStart |-> BasePort + k * portRangeSize,
     rangeEnd |-> BasePort + k * portRangeSize + portRangeSize - 1]

\* no port of interval k is in usedPorts
IntervalFree(k) ==
    \A b \in usedPorts : b.hi < IntervalOf(k).rangeStart \/ b.lo > IntervalOf(k).rangeEnd

FreeIntervals == {k \in GridIntervals : IntervalFree(k)}

LowestFree == CHOOSE k \in FreeIntervals : \A j \in FreeIntervals : k <= j

\* what allocatePortRange(runId) gave its caller: the allocation it made
\* ("allocated", logged on the console), the one it had ("cached"), or the
\* error of findAvailableRange ("threw")
allocateResult(res, runId, had) ==
    [src |-> "PortManager", runId |-> runId,
     type |-> IF res.threw THEN "threw" ELSE IF had THEN "cached" ELSE "allocated",
     allocation |-> IF res.threw THEN EmptyMap ELSE res.ar[runId]]

GridAllocate(runId) ==
    LET res == allocatePortRange(allocatedRanges, usedPorts, runId) IN
    /\ allocatedRanges' = res.ar
    /\ usedPorts' = res.used
    /\ out' = <<allocateResult(res, runId, runId \in DOMAIN allocatedRanges)>>
    /\ UNCHANGED <<runServices, tempFiles, procs, bus, runs, nextId,
                   config, enabledTemplates, schedulerPaused, timeSliceTimers,
                   pauseReason, calls, activeSyncs, runState, isConnected>>

\* the next held run allocates, while no run of AllocRunIds holds an interval
HeldAllocate(runId) ==
    /\ runId \notin DOMAIN allocatedRanges
    /\ DOMAIN allocatedRanges = {h \in HeldIds : h < runId}
    /\ GridAllocate(runId)

GridRelease(runId) ==
    LET res == releasePortRange(allocatedRanges, usedPorts, runId) IN
    /\ runId \in DOMAIN allocatedRanges
    /\ allocatedRanges' = res.ar
    /\ usedPorts' = res.used
    /\ out' = <<[src |-> "PortManager", runId |-> runId, type |-> "released",
                 allocation |-> allocatedRanges[runId]]>>
    /\ UNCHANGED <<runServices, tempFiles, procs, bus, runs, nextId,
                   config, enabledTemplates, schedulerPaused, timeSliceTimers,
                   pauseReason, calls, activeSyncs, runState, isConnected>>

NextGrid ==
    \/ \E h \in HeldIds : HeldAllocate(h)
    \/ \E r \in AllocRunIds : GridAllocate(r)
    \/ \E r \in AllocRunIds : GridRelease(r)

SpecGrid == Init /\ [][NextGrid]_vars

\* C21: allocatePortRange for a run without a live allocation returns the
\* interval [50000 + 1000k, 50000 + 1000k + 999] for the smallest k >= 0
\* whose interval is entirely free; in particular an interval freed by
\* releasePortRange is reused by the next allocation when it is the lowest
\* free one.
C21_LowestFreeInterval ==
    [][\A r \in AllocRunIds \cup HeldIds :
          (GridAllocate(r) /\ r \notin DOMAIN allocatedRanges /\ FreeIntervals # {})
          => /\ out'[1].type = "allocated"
             /\ out'[1].allocation = IntervalOf(LowestFree)
             /\ allocatedRanges'[r] = IntervalOf(LowestFree)]_vars

\* the last call allocated an interval for run r that lies below the
\* interval another run of AllocRunIds holds: that run got its interval
\* while the lower one was taken, so r reuses an interval that was released
C21_Reused ==
    /\ out # << >>
    /\ out[1].type = "allocated"
    /\ out[1].runId \in AllocRunIds
    /\ \E q \in DOMAIN allocatedRanges \cap AllocRunIds :
          allocatedRanges[q].rangeStart > out[1].allocation.rangeStart

\* C22 as stated: allocatePortRange raises an exhaustion error, and leaves
\* the live allocations and used ports unchanged, exactly when no free
\* interval on the grid starts at or below 65000 (whoever calls).
C22_ThrowsIffGridFull ==
    [][\A r \in AllocRunIds \cup HeldIds :
          GridAllocate(r)
          => /\ (out'[1].type = "threw") <=> (FreeIntervals = {})
             /\ out'[1].type = "threw"
                => allocatedRanges' = allocatedRanges /\ usedPorts' = usedPorts]_vars

\* C22: for a run without a live allocation, allocatePortRange raises an
\* exhaustion error, and leaves the live allocations and used ports
\* unchanged, exactly when no free interval on the grid starts at or below
\* 65000; a run that holds an allocation gets it back even on a full grid.
C22_FreshThrowsIffGridFull ==
    [][\A r \in AllocRunIds \cup HeldIds :
          GridAllocate(r)
          => /\ (out'[1].type = "threw")
                <=> (r \notin DOMAIN allocatedRanges /\ FreeIntervals = {})
             /\ out'[1].type = "threw"
                => allocatedRanges' = allocatedRanges /\ usedPorts' = usedPorts]_vars

\* the last call threw on a grid whose intervals are all taken
C22_ThrewOnFullGrid ==
    /\ out # << >>
    /\ out[1].type = "threw"
    /\ FreeIntervals = {}
    /\ Cardinality(DOMAIN allocatedRanges) = Cardinality(GridIntervals)

\* C23: allocatePortRange is idempotent per run id: called again for a run
\* that holds a live allocation it returns the same interval and changes no
\* state, and the run's allocation stays as it is until releasePortRange is
\* called for that run.
C23_Idempotent ==
    [][/\ \A r \in DOMAIN allocatedRanges :
            GridAllocate(r)
            => /\ out'[1].type = "cached"
               /\ out'[1].allocation = allocatedRanges[r]
               /\ allocatedRanges' = allocatedRanges
               /\ usedPorts' = usedPorts
       /\ \A r \in DOMAIN allocatedRanges :
            (r \notin DOMAIN allocatedRanges' \/ allocatedRanges'[r] # allocatedRanges[r])
            => GridRelease(r)]_vars

\* the last call returned the allocation the run already held
C23_ReturnedCached ==
    /\ out # << >>
    /\ out[1].type = "cached"
    /\ out[1].runId \in DOMAIN allocatedRanges
    /\ out[1].allocation = allocatedRanges[out[1].runId]

---------------------------------------------------------------------------
(* Pausing: runs that the user and the scheduler start, pause and resume,   *)
(* with the run store on disk                                               *)

NextPause ==
    \/ \E t \in UserTemplates : StartRun(t, "none", AllOnline)
    \/ Enable(0)
    \/ \E t \in SchedTemplates : EnableTemplate(t, 0)
    \/ \E r \in RunIds : PauseRun(r, 0)
    \/ \E r \in RunIds : TimeSliceExpired(r, 0, 0)
    \/ \E r \in RunIds : ResumeRun(r, "none", AllOnline, 0)
    \/ \E p \in bus : SchedHandleProcessEvent(p, 0)

SpecPause == Init /\ [][NextPause]_vars

\* the events of the given source and type that the last handler emitted for run r
EmittedBy(src, type, r) ==
    {i \in 1..Len(out) : out[i].src = src /\ out[i].type = type /\ out[i].runId = r}

---------------------------------------------------------------------------
(* Sync cycles: runs are registered with the steps their config enables;    *)
(* the interval timer and the initial timeout fire, the REST route          *)
(* POST /sync/:runId/trigger triggers a sync by hand, and the steps of the  *)
(* cycles in flight return or throw.                                        *)

CycleEnv(databases, analysis) ==
    [fault |-> "none", svc |-> AllOnline, code |-> 0, pick |-> 0, sync |-> TRUE,
     databases |-> databases, analysis |-> analysis, async |-> FALSE, deferWrite |-> FALSE]

\* the configs with at least one step
CycleConfigs == {<<TRUE, TRUE>>, <<TRUE, FALSE>>, <<FALSE, TRUE>>}

CycleStartRun(cfg) ==
    /\ nextId <= MaxRuns
    /\ Becomes(startRun(Cur, "A", FALSE, CycleEnv(cfg[1], cfg[2])))

\* router.post('/sync/:runId/trigger'): triggerSync(runId, 'manual')
CycleTrigger(runId) ==
    /\ runId \in DOMAIN activeSyncs
    /\ Becomes(triggerSync(Cur, runId, "none"))

NextCycle ==
    \/ \E cfg \in CycleConfigs : CycleStartRun(cfg)
    \/ \E k \in SyncCallIds : SyncRegistered(k)
    \/ \E r \in RunIds : SyncTick(r)
    \/ \E r \in RunIds : SyncInitial(r)
    \/ \E r \in RunIds : CycleTrigger(r)
    \/ \E k \in SyncCallIds, ok \in BOOLEAN : SyncSettles(k, ok)

SpecCycle == Init /\ [][NextCycle]_vars

C25_CycleAtMaxErrors ==
    \E r \in DOMAIN activeSyncs :
        ErrorsOf(r) >= retryMaxAttempts /\ CyclesOf(r) # {}


\* the sync cycle calls of run r that await the given step
StepCallsOf(r, step) == {k \in CyclesOf(r) : calls[k].step = step}

\* C26: within every sync cycle of a run, the database sync step (when
\* enabled and configured) completes before the analysis-file sync step
\* begins: an analysis step begins either in a cycle of a run without the
\* database step or in the step in which the database step of the same
\* cycle returns, and the two steps of a run are never awaited together.
C26_DatabasesBeforeAnalysis ==
    [][\A r \in DOMAIN activeSyncs :
          /\ (StepCallsOf(r, "analysis")' \ StepCallsOf(r, "analysis") # {}
              /\ activeSyncs[r].databases)
                => /\ StepCallsOf(r, "analysis")' \subseteq StepCallsOf(r, "databases")
                   /\ \E k \in SyncCallIds : SyncSettles(k, TRUE)
          /\ r \in DOMAIN activeSyncs'
                => StepCallsOf(r, "databases")' = {} \/ StepCallsOf(r, "analysis")' = {}]_vars

\* the analysis step of a cycle is awaited for a run whose config enables
\* the database step
C26_AnalysisAfterDatabases ==
    \E r \in DOMAIN activeSyncs :
        activeSyncs[r].databases /\ StepCallsOf(r, "analysis") # {}

---------------------------------------------------------------------------
(* Time-slice expiry and template selection under SpecSched *)

\* the first entry of config.enabledTemplates with the given name, 0 if none
TemplateOf(templateName) == templateIndex(enabledTemplates, templateName)

\* C27: when the expiry timer fires for a run whose status is running, the
\* scheduler pauses the run via pauseRun, sets the owning template's
\* currentRunId to null, adds timeSliceMinutes to the template's
\* totalRunTimeMinutes, emits time-slice-expired, and then attempts slot
\* filling: after the handler the run was paused through pauseRun, the
\* template has one more time slice, and its currentRunId names the expired
\* run only if slot filling has resumed that run.
C27_ExpiryFreesTemplate ==
    [][\A r \in DOMAIN timeSliceTimers, c \in ExitCodes, k \in Picks :
          (TimeSliceExpired(r, c, k) /\ r \in DOMAIN runs /\ runs[r].status = "running"
           /\ TemplateOf(runs[r].templateName) # 0)
          => /\ EmittedBy("socket", "run-paused", r)' # {}
             /\ EmittedBy("scheduler", "time-slice-expired", r)' # {}
             /\ enabledTemplates'[TemplateOf(runs[r].templateName)].totalRunTimeMinutes
                   = enabledTemplates[TemplateOf(runs[r].templateName)].totalRunTimeMinutes + 1
             /\ enabledTemplates'[TemplateOf(runs[r].templateName)].currentRunId = r
                   => runs'[r].status = "running"]_vars


\* the enabled templates whose currentRunId is unset or refers to a run that
\* is not running (paused, stopped, terminated, failed or unknown)
FreeTemplates ==
    {i \in 1..Len(enabledTemplates) :
        /\ enabledTemplates[i].enabled
        /\ \/ enabledTemplates[i].currentRunId = 0
           \/ enabledTemplates[i].currentRunId \notin DOMAIN runs
           \/ runs[enabledTemplates[i].currentRunId].status # "running"}

\* template i is what the scheduling mode prefers among the templates of set
PreferredIn(i, set) ==
    /\ i \in set
    /\ IF config.schedulingMode = "priority"
       THEN \A j \in set : enabledTemplates[i].priority <= enabledTemplates[j].priority
       ELSE \A j \in set :
               \/ enabledTemplates[i].lastRunAt = 0
               \/ /\ enabledTemplates[j].lastRunAt # 0
                  /\ enabledTemplates[i].lastRunAt <= enabledTemplates[j].lastRunAt

\* C28: selectNextTemplate returns, among the enabled templates whose
\* currentRunId is unset or refers to a run that is not running (paused,
\* stopped, terminated, failed or unknown), the one with the lowest priority
\* in priority mode, or the one with the oldest lastRunAt (null counting as
\* oldest) in round-robin mode; it returns none only when no such template
\* exists.
C28_SelectsAmongFree ==
    \A k \in Picks :
        IF selectNextTemplate(Cur, SchedEnv(0, k)) = 0
        THEN FreeTemplates = {}
        ELSE PreferredIn(selectNextTemplate(Cur, SchedEnv(0, k)), FreeTemplates)

---------------------------------------------------------------------------
(* Slot filling with scheduling steps in progress: a scheduleNextRun call   *)
(* that awaits resumeOrStartRun is suspended while run-ended notifications  *)
(* and time-slice expiries are handled.  Timers fire, PM2 events are        *)
(* delivered and suspended calls continue (weak fairness); the user's calls *)
(* and the exits of compute processes need not happen.                      *)

LiveEnv(code) ==
    [fault |-> "none", svc |-> AllOnline, code |-> code, pick |-> 0, sync |-> FALSE,
     async |-> TRUE, deferWrite |-> FALSE]

LiveTimeSliceExpired(runId, code) ==
    /\ BusOpen
    /\ runId \in DOMAIN timeSliceTimers
    /\ BecomesWithin(onTimeSliceExpired(Cur, runId, LiveEnv(code)))

LiveHandleProcessEvent(packet) ==
    /\ packet \in bus
    /\ BecomesWithin(handleProcessEvent([Cur EXCEPT !.bus = bus \ {packet}], packet,
                                        LiveEnv(0)))

ScheduleNextRunContinue(k) ==
    /\ k \in DOMAIN calls
    /\ calls[k].op = "scheduleNextRun"
    /\ BecomesWithin(scheduleNextRunContinue(Cur, k, SchedEnv(0, 0)))

LiveTimers == \E r \in RunIds, c \in ExitCodes : LiveTimeSliceExpired(r, c)

LiveEvents == \E p \in bus : LiveHandleProcessEvent(p)

LiveCalls == \E k \in CallIds : ScheduleNextRunContinue(k)

NextLive ==
    \/ Enable(0)
    \/ \E t \in SchedTemplates : EnableTemplate(t, 0)
    \/ \E n \in Counts : SetMaxConcurrentRuns(n, 0)
    \/ \E r \in RunIds, c \in ExitCodes, st \in {"stopped", "errored"} : ComputeExits(r, c, st)
    \/ LiveTimers
    \/ LiveEvents
    \/ LiveCalls

SpecLive ==
    /\ Init
    /\ [][NextLive]_vars
    /\ WF_vars(LiveTimers)
    /\ WF_vars(LiveEvents)
    /\ WF_vars(LiveCalls)

\* the scheduler is on, a slot is open, a template of the spec's free set
\* exists and a fresh run id is left
SlotToFill ==
    /\ config.enabled
    /\ ~schedulerPaused
    /\ Cardinality(activeScheduledRuns(Cur)) < config.maxConcurrentRuns
    /\ FreeTemplates # {}
    /\ nextId <= MaxRuns

\* the last handler started or resumed a run for a template
RunScheduled ==
    \E i \in 1..Len(out) : out[i].src = "scheduler" /\ out[i].type = "time-slice-started"

\* a step of the scheduler itself is still to come: a time-slice timer is
\* armed, a process event is in flight or a scheduling step is in progress
StepPending ==
    \/ DOMAIN timeSliceTimers # {}
    \/ bus # {}
    \/ isScheduling(Cur)

\* C29: whenever the scheduler is enabled and not paused, fewer than
\* maxConcurrentRuns auto-scheduled runs are running, and some enabled
\* template's slot is free, a run for a free template is eventually started
\* or resumed (under fairness), including when a run-ended notification or a
\* time-slice expiry arrives while another scheduling step is in progress.
\* Stated on finite runs: while the slot is open and no run has just been
\* started or resumed, one of the fair steps of SpecLive is still to come;
\* a state without one repeats forever under SpecLive's fairness.
C29_SlotFilledOrStepPending == (SlotToFill /\ ~RunScheduled) => StepPending


(***************************************************************************)
(* resumeRun that fails after its services are up, under Spec              *)
(***************************************************************************)

\* the service processes of a run that PM2 lists
ServiceProcsOf(r) == {a \in DOMAIN procs : a.id = r /\ a \notin {EvoName(r)}}

\* run r has no service bookkeeping, no port allocation and no service process
NothingHeld(r) ==
    /\ r \notin DOMAIN runServices
    /\ r \notin DOMAIN allocatedRanges
    /\ ServiceProcsOf(r) = {}

\* C30: if resumeRun fails after it has brought the run's services up (for
\* example the compute spawn fails), the run's status is left unchanged (not
\* running), and no service process and no port allocation for the run
\* remains.  A resumeRun is the only step that starts services for a run
\* that is not running: after a step from such a run that held nothing,
\* the run is running (the resume went through) or it still holds nothing.
C30_FailedResumeHoldsNothing ==
    [][\A r \in DOMAIN runs :
          (runs[r].status # "running" /\ NothingHeld(r))
              => (runs'[r].status = "running" \/ NothingHeld(r)')]_vars


(***************************************************************************)
(* The list request of the analysis step: SpecList                         *)
(***************************************************************************)

ListStatuses == {HttpOk, HttpNotFound} \cup HttpErrors

\* the analysis step of cycle k returns after a list request that the
\* central service answered with status
ListAnswers(k, status) ==
    /\ k \in DOMAIN calls
    /\ calls[k].op = "sync"
    /\ calls[k].step = "analysis"
    /\ Becomes(executeSyncContinue(syncAnalysisListed(Cur, k, status), k,
                                   ~syncAnalysisFiles(status).threw, CycleEnv(FALSE, TRUE)))

NextList ==
    \/ CycleStartRun(<<FALSE, TRUE>>)
    \/ \E k \in SyncCallIds : SyncRegistered(k)
    \/ \E r \in RunIds : SyncTick(r)
    \/ \E r \in RunIds : SyncInitial(r)
    \/ \E r \in RunIds : CycleTrigger(r)
    \/ \E k \in SyncCallIds : SyncSettles(k, FALSE)
    \/ \E k \in SyncCallIds, st \in ListStatuses : ListAnswers(k, st)

SpecList == Init /\ [][NextList]_vars

\* the cycle of run r is closed as a failure by this step: the entry counts
\* one more consecutive error and sync-error is emitted
CycleFailed(r) ==
    /\ r \in DOMAIN activeSyncs'
    /\ activeSyncs'[r].consecutiveErrors = activeSyncs[r].consecutiveErrors + 1
    /\ \E i \in 1..Len(out') : out'[i].type = "sync-error" /\ out'[i].runId = r

\* the cycle of run r is closed as a success by this step
CycleCompleted(r) ==
    /\ r \in DOMAIN activeSyncs'
    /\ activeSyncs'[r].consecutiveErrors = 0
    /\ \E i \in 1..Len(out') : out'[i].type = "sync-completed" /\ out'[i].runId = r

\* C31: a sync cycle in which the central service answers the file-list
\* request with an HTTP error other than 404 (for example 401, 403 or 500) is
\* counted as a cycle failure: consecutiveErrors is incremented and an error
\* record is appended (reported by sync-error); a 404 is treated as an empty
\* remote list and is not a failure.
C31_ListErrorFailsCycle ==
    [][\A k \in DOMAIN calls, st \in ListStatuses :
          (ListAnswers(k, st) /\ calls[k].runId \in DOMAIN activeSyncs)
              => IF st \in HttpErrors THEN CycleFailed(calls[k].runId)
                 ELSE CycleCompleted(calls[k].runId)]_vars


(***************************************************************************)
(* pauseCount, under SpecPause                                             *)
(***************************************************************************)

StoreEnv ==
    [fault |-> "none", svc |-> AllOnline, code |-> 0, pick |-> 0, sync |-> FALSE,
     async |-> FALSE, deferWrite |-> TRUE]

StoreHandleProcessEvent(packet) ==
    /\ packet \in bus
    /\ Cardinality(DOMAIN calls) < MaxCalls
    /\ Becomes(handleProcessEvent([Cur EXCEPT !.bus = bus \ {packet}], packet, StoreEnv))

\* fs.writeJson of a saveRunState in flight completes
StoreWrites(k) ==
    /\ k \in DOMAIN calls
    /\ calls[k].op = "saveRunState"
    /\ Becomes(saveRunStateWrite(Cur, k))

NextStore ==
    \/ StartRun("A", "none", AllOnline)
    \/ \E r \in RunIds, c \in ExitCodes, st \in {"stopped", "errored"} : ComputeExits(r, c, st)
    \/ \E p \in bus : StoreHandleProcessEvent(p)
    \/ \E k \in CallIds : StoreWrites(k)

SpecStore == Init /\ [][NextStore]_vars

\* no saveRunState is in flight
WritesCompleted == \A k \in DOMAIN calls : calls[k].op # "saveRunState"

\* C33: run-state writes are serialized: after any set of overlapping
\* saveRunState calls has completed, the persisted run-state file equals the
\* most recent in-memory run state (an older snapshot never overwrites a
\* newer one).
C33_FileIsLatestState ==
    WritesCompleted => runState = [r \in DOMAIN runs |-> stored(runs[r])]


(***************************************************************************)
(* Exit events of processes the manager stopped itself, under SpecExpiry:  *)
(* no process exits on its own there, every exit packet on the bus comes   *)
(* from the pm2Stop of a pauseRun in flight or completed.                  *)
(***************************************************************************)

\* C34: an exit event caused by pauseRun or stopRun stopping the compute
\* process never sets the run's status to terminated or failed, never emits
\* run-ended, and never increments the scheduler's consecutiveFailures,
\* whatever the order in which the exit event and the operation's own status
\* update are processed.
C34_OwnStopExitIgnored ==
    [][\A p \in bus :
          SchedHandleProcessEvent(p, 0)
              => /\ \A r \in DOMAIN runs :
                        runs'[r].status \in {"terminated", "failed"}
                            => runs'[r].status = runs[r].status
                 /\ \A i \in 1..Len(out') : out'[i].type # "run-ended"
                 /\ config'.consecutiveFailures <= config.consecutiveFailures]_vars


(***************************************************************************)
(* getAllRuns and the processes that carry a run id, under Spec            *)
(***************************************************************************)

\* the status getAllRuns gives run r when only the run's compute process
\* counts: online -> running, stopped -> stopped, errored -> failed
StatusFromCompute(r) ==
    IF EvoName(r) \in DOMAIN procs
    THEN statusFromPm2(procs[EvoName(r)], runs[r].status)
    ELSE runs[r].status

\* C35: getAllRuns sets a run's status only from the process-manager status
\* of that run's compute process (online -> running, stopped -> stopped,
\* errored -> failed); the status of an auxiliary service process carrying
\* the run id never changes the run's status.
C35_StatusFromComputeOnly ==
    [][GetAllRuns => \A r \in DOMAIN runs : runs'[r].status = StatusFromCompute(r)]_vars


(***************************************************************************)
(* Expiry timers of the running auto-scheduled runs, under SpecSched       *)
(***************************************************************************)

\* C36: while the scheduler is enabled and not paused, every auto-scheduled
\* run with status running has an armed expiry timer (so it is eventually
\* paused or ends); this holds after resumeScheduling following a failure
\* pause, after removeTemplate, and after an orchestrator restart.
C36_RunningRunsHaveTimers ==
    (config.enabled /\ ~schedulerPaused)
        => \A r \in DOMAIN runs :
              (runs[r].autoScheduled /\ runs[r].status = "running")
                  => r \in DOMAIN timeSliceTimers


(***************************************************************************)
(* Stopping one run's services beside another run, under SpecNaming        *)
(***************************************************************************)

\* the processes that the service manager tracks for run r
TrackedProcs(r) == {n \in DOMAIN runServices[r].services : n \in DOMAIN procs}

\* C37: stopping the services of run r (stopServicesForRun, and hence
\* stopRun or pauseRun of r) never stops or deletes a process that belongs
\* to a different run r' # r, for any set of concurrently active runs: a
\* step that stops the services of r (r is no longer tracked) leaves every
\* process of each run that is still tracked in PM2's list.
C37_OtherRunsKeepProcesses ==
    [][\A r \in DOMAIN runServices \ DOMAIN runServices' :
          \A q \in DOMAIN runServices \cap DOMAIN runServices' :
              \A n \in TrackedProcs(q) : n \in DOMAIN procs']_vars


(***************************************************************************)
(* Shutdown with the scheduler on: SpecShutdown.  The process exits when   *)
(* shutdown() has returned, so nothing happens once isConnected is false.  *)
(***************************************************************************)

\* SIGINT or SIGTERM while the scheduler runs auto-scheduled runs
SchedShutdown(code) ==
    /\ isConnected
    /\ BecomesWithin(shutdown(Cur, SchedEnv(code, 0)))

NextShutdown ==
    \/ isConnected /\ Enable(0)
    \/ isConnected /\ \E t \in SchedTemplates : EnableTemplate(t, 0)
    \/ isConnected /\ \E n \in Counts : SetMaxConcurrentRuns(n, 0)
    \/ isConnected /\ \E r \in RunIds : TimeSliceExpired(r, 0, 0)
    \/ isConnected /\ \E r \in RunIds, c \in ExitCodes, st \in {"stopped", "errored"} :
                          ComputeExits(r, c, st)
    \/ isConnected /\ \E p \in bus : SchedHandleProcessEvent(p, 0)
    \/ \E c \in ExitCodes : SchedShutdown(c)

SpecShutdown == Init /\ [][NextShutdown]_vars

\* C38: once the orchestrator's shutdown has begun, no new run is started or
\* resumed (in particular the scheduler does not fill the slots freed by the
\* runs that shutdown stops): the step of shutdown() creates no run and
\* emits no run-started.
C38_NoStartDuringShutdown ==
    [][(isConnected /\ ~isConnected')
          => /\ nextId' = nextId
             /\ \A i \in 1..Len(out') : out'[i].type # "run-started"]_vars


(***************************************************************************)
(* Resuming runs under a sync manager: SpecResync.                         *)
(***************************************************************************)

SyncResumeRun(runId, code) ==
    /\ isConnected
    /\ BusOpen
    /\ runId \in DOMAIN runs
    /\ runs[runId].status # "running"
    /\ Becomes(resumeRun(Cur, runId, SyncEnv(code)))

\* one run is enough: the sync entries of different runs are independent
ResyncStartRun ==
    /\ nextId = 1
    /\ SyncStartRun

NextResync ==
    \/ ResyncStartRun
    \/ \E k \in SyncCallIds : SyncRegistered(k)
    \/ \E k \in SyncCallIds : SyncSettles(k, TRUE)
    \/ \E r \in RunIds : SyncStopRun(r, 0)
    \/ \E r \in RunIds : SyncPauseRun(r, 0)
    \/ \E r \in RunIds, c \in ExitCodes : SyncComputeExits(r, c)
    \/ \E p \in bus : SyncHandleProcessEvent(p)
    \/ \E r \in RunIds : SyncResumeRun(r, 0)

SpecResync == Init /\ [][NextResync]_vars

\* C39: every run with status running for which sync is enabled is
\* registered with the sync manager; in particular a run that was
\* unregistered by stopRun or by a compute exit and is later resumed with
\* resumeRun is registered again.
C39_RunningRunsRegistered ==
    \A r \in DOMAIN runs : runs[r].status = "running" => r \in DOMAIN activeSyncs


---------------------------------------------------------------------------
(* The ports of an allocation as TCP ports, on the grid of SpecGrid.       *)

\* the largest port number of TCP (16 bits)
MaxTcpPort == 2 ^ 16 - 1

\* C40: every port of every allocation the allocator can return is a valid
\* TCP port: rangeEnd <= 65535 for all live allocations, for any number of
\* concurrent runs.
C40_RangesAreTcpPorts ==
    \A r \in DOMAIN allocatedRanges : allocatedRanges[r].rangeEnd <= MaxTcpPort

=============================================================================
